---- MODULE Spec2Model ----
(***************************************************************************)
(* plex-dual-subtitles: the bulk dual-subtitle wizard, the single-item     *)
(* dual-subtitle creator, the background job record and its polling        *)
(* clients, and the filename helpers (dual-file naming, language           *)
(* identification).                                                        *)
(*                                                                         *)
(* Each subsystem has its own specification over the module's variables;   *)
(* a specification leaves the other subsystems' variables at their initial *)
(* values.                                                                 *)
(***************************************************************************)
EXTENDS Integers, Sequences, FiniteSets, Bags, TLC

VARIABLES
    \* ---- bulk wizard (BulkDualSubtitleWizard + LanguageDiscoveryStep) ----
    show,               \* the library's episodes (what the backend analyses)
    analysis,           \* wizard state: SubtitleAnalysis | null
    currentStep,        \* wizard state: WizardStep
    primaryLanguage,    \* wizard state
    secondaryLanguage,  \* wizard state
    stylingConfig,      \* wizard state: DualSubtitleConfig
    jobId,              \* wizard state: the job id, 0 for the empty string
    selPrimary,         \* LanguageDiscoveryStep local state primaryLanguage
    selSecondary,       \* LanguageDiscoveryStep local state secondaryLanguage
    postInFlight,       \* bulk job creation requests awaiting their response
    postCount,          \* number of bulk job creation requests sent so far
    wizardOpen,         \* FALSE once onClose has run
    \* ---- DualSubtitleCreator ----
    externalSubtitles,  \* props: the media's external subtitle files
    embeddedSubtitles,  \* props: the media's embedded subtitle streams
    config,             \* component state: the two selections
    createRequest,      \* createMutation: the pending request, or NoRequest
    previewRequest,     \* previewMutation: the pending request, or NoRequest
    \* ---- file names (SubtitleManager.parseDualLanguages, data/languages) ----
    fileName,           \* the file name looked at, a sequence of characters
    namedLanguages,     \* the two codes a dual file was named for
    dualLanguages,      \* what parseDualLanguages returned for fileName
    foundLanguages,     \* what extractLanguageFromFilename returned for fileName
    \* ---- the job store and the orchestrator of one bulk job ----
    job,                \* the Job record of the store
    outcomes,           \* the outcome of each episode processed so far
    itemInFlight,       \* an episode is being processed
    \* ---- ProcessingStep, from the moment the job id was received ----
    mounted,            \* the component is mounted
    pollInterval,       \* the interval is set and not cleared
    pollResponses,      \* responses of GET /api/jobs/{id} on their way back, a bag
    polledStatus,       \* job.status of the response handled last
    progress,           \* progress state
    processingError,    \* error state
    isProcessing,       \* isProcessing state
    completeTimer,      \* the results the pending setTimeouts hand to onComplete, a bag
    results,            \* what onComplete was called with, call after call
    \* ---- JobDetailModal ----
    modalJob,           \* job state
    isLoading,          \* isLoading state
    modalError,         \* error state
    isCancelling,       \* isCancelling state
    modalPending,       \* the request the modal waits for
    modalReply,         \* the answer to it, once the backend has given one
    jobCompleteCalled,  \* onJobComplete has been called
    \* ---- the pipeline of one item: synchronize, then merge ----
    primaryTrack,       \* the primary Track as read
    secondaryTrack,     \* the secondary Track as read
    pipelineConfig,     \* DualSubtitleConfig of the request
    pipelineStep,       \* where the pipeline stands
    alignedPrimary,     \* the primary Track as returned by the adapter
    alignedSecondary,   \* the secondary Track as returned by the adapter
    secondaryReference, \* the reference of the secondary's synchronization
    syncWarnings,       \* details.sync_warnings
    mergeResult,        \* the merged Track and the details of the result
    itemOutcome,        \* the outcome of the item
    \* ---- SubtitleManager: the upload form ----
    uploadFile,         \* uploadFile state: the name of the file held
    uploadLanguage,     \* uploadLanguage state
    detectedLanguage,   \* detectedLanguage state
    isUploading,        \* isUploading state
    lastToast,          \* the title of the toast added last
    uploadCall,         \* the pending call of onUpload: file and language
    \* ---- the effect of the ProcessingStep the wizard has mounted ----
    effectDeps,         \* the dependencies of the effect's last run
    effectPosts,        \* creation requests the effect has sent since the mount
    \* ---- ProcessingStep: startBackgroundJob and the effect's cleanup ----
    intervalPromise,    \* the promise startBackgroundJob returned: pending, or what it resolved with
    cleanupThen,        \* the then-callback the cleanup registered on it
    \* ---- SubtitleManager: extractions and deletions in progress ----
    extractingStreams,  \* extractingStreams state: a set of stream indexes
    deletingFiles,      \* deletingFiles state: a set of file paths
    extractCalls,       \* the calls of onExtract awaited by handleExtract
    deleteCalls         \* the calls of onDelete awaited by handleDelete

wizardVars ==
    <<show, analysis, currentStep, primaryLanguage, secondaryLanguage,
      stylingConfig, jobId, selPrimary, selSecondary, postInFlight,
      postCount, wizardOpen>>

creatorVars ==
    <<externalSubtitles, embeddedSubtitles, config, createRequest,
      previewRequest>>

fileVars == <<fileName, namedLanguages, dualLanguages, foundLanguages>>

jobVars == <<job, outcomes, itemInFlight>>

pollVars ==
    <<mounted, pollInterval, pollResponses, polledStatus, progress,
      processingError, isProcessing, completeTimer, results>>

modalVars ==
    <<modalJob, isLoading, modalError, isCancelling, modalPending, modalReply,
      jobCompleteCalled>>

pipelineVars ==
    <<primaryTrack, secondaryTrack, pipelineConfig, pipelineStep, alignedPrimary,
      alignedSecondary, secondaryReference, syncWarnings, mergeResult, itemOutcome>>

uploadVars ==
    <<uploadFile, uploadLanguage, detectedLanguage, isUploading, lastToast, uploadCall>>

effectVars == <<effectDeps, effectPosts>>

startVars == <<intervalPromise, cleanupThen>>

busyVars == <<extractingStreams, deletingFiles, extractCalls, deleteCalls>>

vars ==
    <<wizardVars, creatorVars, fileVars, jobVars, pollVars, modalVars, pipelineVars, uploadVars, effectVars, startVars, busyVars>>

--------------------------------------------------------------------------
(* Bounds *)

MaxEpisodes == 2
MaxPosts == 2
MaxExternal == 2
MaxEmbedded == 1
MaxSegments == 3
MaxItems == 2
MaxInFlight == 2
MaxCues == 2

\* embedded streams and external files SubtitleManager lists
MaxStreams == 2
MaxFiles == 2

--------------------------------------------------------------------------
(* Generic helpers *)

Range(s) == {s[i] : i \in 1..Len(s)}

RECURSIVE SeqFilterIdx(_, _, _)
\* the indexes i (ascending) of s with i \in keep, as a sequence of elements
SeqFilterIdx(s, keep, i) ==
    IF i > Len(s) THEN <<>>
    ELSE IF i \in keep THEN <<s[i]>> \o SeqFilterIdx(s, keep, i + 1)
    ELSE SeqFilterIdx(s, keep, i + 1)

Max(a, b) == IF a >= b THEN a ELSE b
Min(a, b) == IF a <= b THEN a ELSE b

--------------------------------------------------------------------------
(* The show: the episodes the backend analyses.  An episode is one of a    *)
(* fixed set of profiles: the languages it has subtitles for and the       *)
(* dual_languages of each dual subtitle file it already carries.           *)

Languages == {"en", "ja", "fr"}

EpisodeProfiles ==
    { [langs |-> <<"en", "ja">>,       duals |-> <<>>],
      [langs |-> <<"en", "ja">>,       duals |-> << <<"en", "ja">> >>],
      [langs |-> <<"ja", "en">>,       duals |-> << <<"ja", "en">> >>],
      [langs |-> <<"en">>,             duals |-> <<>>],
      [langs |-> <<"ja", "fr">>,       duals |-> <<>>],
      [langs |-> <<>>,                 duals |-> <<>>],
      [langs |-> <<"fr", "en", "ja">>, duals |-> << <<>>, <<"en", "fr">> >>] }

Shows == UNION { [1..n -> EpisodeProfiles] : n \in 1..MaxEpisodes }

\* the shows the wizard is opened on
WizardProfiles ==
    { [langs |-> <<"en", "ja">>,       duals |-> <<>>],
      [langs |-> <<"ja", "en">>,       duals |-> << <<"ja", "en">> >>],
      [langs |-> <<"en">>,             duals |-> <<>>],
      [langs |-> <<"fr", "en", "ja">>, duals |-> << <<>>, <<"en", "fr">> >>] }

WizardShows == [1..MaxEpisodes -> WizardProfiles]

NoAnalysis == [total_episodes |-> -1]

RECURSIVE LanguageOrder(_, _, _)
\* the languages of the show in order of first appearance
LanguageOrder(sh, e, acc) ==
    IF e > Len(sh) THEN acc
    ELSE LET ls == sh[e].langs
             new == SeqFilterIdx(ls, {i \in 1..Len(ls) : ls[i] \notin Range(acc)}, 1)
         IN LanguageOrder(sh, e + 1, acc \o new)

\* one entry of language_availability[l].episode_details
EpisodeDetail(sh, e) ==
    [episode_id |-> e,
     existing_dual_subtitles |->
        [i \in 1..Len(sh[e].duals) |-> [dual_languages |-> sh[e].duals[i]]]]

LanguageAvailability(sh, l) ==
    LET has == {e \in 1..Len(sh) : l \in Range(sh[e].langs)}
    IN [episodes_available |-> Cardinality(has),
        episode_details |->
            SeqFilterIdx([e \in 1..Len(sh) |-> EpisodeDetail(sh, e)], has, 1)]

\* GET /api/shows/{id}/subtitle-analysis
BuildAnalysis(sh) ==
    LET order == LanguageOrder(sh, 1, <<>>)
    IN [total_episodes |-> Len(sh),
        language_keys |-> order,
        language_availability |->
            [l \in Range(order) |-> LanguageAvailability(sh, l)]]

--------------------------------------------------------------------------
(* BulkDualSubtitleWizard: derived values *)

HasAvail(an, l) == an # NoAnalysis /\ l \in DOMAIN an.language_availability

\* a plausible slip: the existing pair is compared in the requested order only
HasExistingDual_Ordered(ep, p, s) ==
    \E i \in 1..Len(ep.existing_dual_subtitles) :
        LET dl == ep.existing_dual_subtitles[i].dual_languages
        IN Len(dl) >= 2 /\ dl[1] = p /\ dl[2] = s

\* ep.existing_dual_subtitles?.some(...) of readyCount / stats
HasExistingDual(ep, p, s) ==
    \E i \in 1..Len(ep.existing_dual_subtitles) :
        LET dl == ep.existing_dual_subtitles[i].dual_languages
        IN /\ Len(dl) >= 2
           /\ \/ (dl[1] = p /\ dl[2] = s)
              \/ (dl[1] = s /\ dl[2] = p)

EpisodesWithBoth(an, p, s) ==
    LET pd == an.language_availability[p].episode_details
        sd == an.language_availability[s].episode_details
    IN SeqFilterIdx(pd,
           {i \in 1..Len(pd) :
               \E j \in 1..Len(sd) : sd[j].episode_id = pd[i].episode_id}, 1)

EpisodesWithExistingDual(an, p, s) ==
    LET both == EpisodesWithBoth(an, p, s)
    IN SeqFilterIdx(both,
           {i \in 1..Len(both) : HasExistingDual(both[i], p, s)}, 1)

ReadyCount(an, p, s) ==
    IF an = NoAnalysis \/ p = "" \/ s = "" THEN 0
    ELSE IF ~HasAvail(an, p) \/ ~HasAvail(an, s) THEN 0
    ELSE Len(EpisodesWithBoth(an, p, s)) - Len(EpisodesWithExistingDual(an, p, s))

readyCount == ReadyCount(analysis, primaryLanguage, secondaryLanguage)

\* EpisodePreviewStep.stats (the step is rendered only with an analysis)
Stats(an, p, s) ==
    IF ~HasAvail(an, p) \/ ~HasAvail(an, s)
    THEN [ready |-> 0, needsAttention |-> 0,
          willSkip |-> an.total_episodes, alreadyExists |-> 0]
    ELSE LET primaryAvail == an.language_availability[p]
             secondaryAvail == an.language_availability[s]
             alreadyExists == Len(EpisodesWithExistingDual(an, p, s))
             both == Len(EpisodesWithBoth(an, p, s))
             maxAvailable == Max(primaryAvail.episodes_available,
                                 secondaryAvail.episodes_available)
         IN [ready |-> both - alreadyExists,
             needsAttention |-> maxAvailable - both,
             willSkip |-> an.total_episodes - maxAvailable,
             alreadyExists |-> alreadyExists]

CanGoBack ==
    currentStep = "preview" \/ (currentStep = "processing" /\ jobId = 0)

--------------------------------------------------------------------------
(* LanguageDiscoveryStep *)

RECURSIVE InsertByAvailability(_, _, _)
\* insert language l into the sorted prefix, after every entry that is at
\* least as available (Array.prototype.sort is stable)
InsertByAvailability(an, sorted, l) ==
    IF sorted = <<>> THEN <<l>>
    ELSE IF an.language_availability[Head(sorted)].episodes_available
              >= an.language_availability[l].episodes_available
         THEN <<Head(sorted)>> \o InsertByAvailability(an, Tail(sorted), l)
         ELSE <<l>> \o sorted

RECURSIVE SortByAvailability(_, _, _)
SortByAvailability(an, keys, i) ==
    IF i = 0 THEN <<>>
    ELSE InsertByAvailability(an, SortByAvailability(an, keys, i - 1), keys[i])

TopLanguages == 6

SortedLanguages(an) ==
    IF an = NoAnalysis THEN <<>>
    ELSE LET all == SortByAvailability(an, an.language_keys, Len(an.language_keys))
         IN SubSeq(all, 1, Min(Len(all), TopLanguages))

\* the auto-select effect: runs after every render of the step
AutoSelect(an, p, s) ==
    LET sorted == SortedLanguages(an)
    IN IF Len(sorted) >= 2 /\ p = "" /\ s = ""
       THEN <<sorted[1], sorted[2]>>
       ELSE <<p, s>>

\* language_availability[l]?.episodes_available || 0
EpisodesAvailable(an, l) ==
    IF HasAvail(an, l) THEN an.language_availability[l].episodes_available ELSE 0

\* LanguageDiscoveryStep.previewData for a selected pair, with the counts the
\* preview line shows
PreviewData(an, p, s) ==
    LET compatible == Min(EpisodesAvailable(an, p), EpisodesAvailable(an, s))
        most == Max(EpisodesAvailable(an, p), EpisodesAvailable(an, s))
    IN [compatible |-> compatible,
        partial |-> most - compatible,
        skip |-> an.total_episodes - most]

CanContinue ==
    /\ selPrimary # ""
    /\ selSecondary # ""
    /\ selPrimary # selSecondary
    /\ HasAvail(analysis, selPrimary)
    /\ HasAvail(analysis, selSecondary)

\* the step is mounted and past its loading / error / null returns
DiscoveryRendered ==
    wizardOpen /\ currentStep = "discovery" /\ analysis # NoAnalysis

\* set the step's local selection, then let the auto-select effect run
SetSelection(p, s) ==
    /\ selPrimary' = AutoSelect(analysis, p, s)[1]
    /\ selSecondary' = AutoSelect(analysis, p, s)[2]

\* useQuery resolves; onAnalysisLoad = setAnalysis
AnalysisLoad ==
    /\ wizardOpen /\ currentStep = "discovery" /\ analysis = NoAnalysis
    /\ analysis' = BuildAnalysis(show)
    /\ selPrimary' = AutoSelect(analysis', selPrimary, selSecondary)[1]
    /\ selSecondary' = AutoSelect(analysis', selPrimary, selSecondary)[2]
    /\ UNCHANGED <<show, currentStep, primaryLanguage, secondaryLanguage,
                   stylingConfig, jobId, postInFlight, postCount, wizardOpen>>

\* PRIMARY (MAIN) select: every language of the analysis, or the placeholder
PrimarySelectChange ==
    /\ DiscoveryRendered
    /\ \E v \in {""} \cup DOMAIN analysis.language_availability :
          SetSelection(v, selSecondary)
    /\ UNCHANGED <<show, analysis, currentStep, primaryLanguage, secondaryLanguage,
                   stylingConfig, jobId, postInFlight, postCount, wizardOpen>>

\* SECONDARY (OVERLAY) select: the languages other than the primary
SecondarySelectChange ==
    /\ DiscoveryRendered
    /\ \E v \in {""} \cup (DOMAIN analysis.language_availability \ {selPrimary}) :
          SetSelection(selPrimary, v)
    /\ UNCHANGED <<show, analysis, currentStep, primaryLanguage, secondaryLanguage,
                   stylingConfig, jobId, postInFlight, postCount, wizardOpen>>

\* a language chip's onClick
ChipClick ==
    /\ DiscoveryRendered
    /\ \E languageCode \in Range(SortedLanguages(analysis)) :
          IF selPrimary = "" THEN SetSelection(languageCode, selSecondary)
          ELSE IF selSecondary = "" /\ languageCode # selPrimary
               THEN SetSelection(selPrimary, languageCode)
          ELSE IF languageCode = selPrimary THEN SetSelection("", selSecondary)
          ELSE IF languageCode = selSecondary THEN SetSelection(selPrimary, "")
          ELSE SetSelection(selPrimary, selSecondary)
    /\ UNCHANGED <<show, analysis, currentStep, primaryLanguage, secondaryLanguage,
                   stylingConfig, jobId, postInFlight, postCount, wizardOpen>>

\* handleContinue's own condition
ContinueGuard ==
    selPrimary # "" /\ selSecondary # "" /\ selPrimary # selSecondary

\* a plausible slip: the secondary language is set from the wrong argument
HandleLanguageSelect_SamePair(primary, secondary) ==
    /\ primaryLanguage' = primary
    /\ secondaryLanguage' = primary
    /\ stylingConfig' = [stylingConfig EXCEPT !.primary_language = primary,
                                              !.secondary_language = primary]
    /\ currentStep' = "preview"

\* BulkDualSubtitleWizard.handleLanguageSelect
HandleLanguageSelect(primary, secondary) ==
    /\ primaryLanguage' = primary
    /\ secondaryLanguage' = secondary
    /\ stylingConfig' = [stylingConfig EXCEPT !.primary_language = primary,
                                              !.secondary_language = secondary]
    /\ currentStep' = "preview"

\* CONTINUE button (disabled unless canContinue) -> handleContinue
Continue ==
    /\ DiscoveryRendered
    /\ CanContinue
    /\ ContinueGuard
    /\ HandleLanguageSelect(selPrimary, selSecondary)
    /\ UNCHANGED <<show, analysis, jobId, selPrimary, selSecondary,
                   postInFlight, postCount, wizardOpen>>

--------------------------------------------------------------------------
(* BulkDualSubtitleWizard: handlers *)

InitialStylingConfig ==
    [primary_language |-> "", secondary_language |-> "",
     enable_sync |-> FALSE, enable_language_prefix |-> TRUE]

\* EpisodePreviewStep's SubtitleStyleForm -> onStylingConfigChange: one of
\* the two checkboxes is toggled
StylingConfigChange ==
    /\ wizardOpen /\ currentStep = "preview" /\ analysis # NoAnalysis
    /\ LET formConfig == [stylingConfig EXCEPT
                             !.primary_language = primaryLanguage,
                             !.secondary_language = secondaryLanguage]
       IN \/ stylingConfig' =
                [formConfig EXCEPT !.enable_sync = ~formConfig.enable_sync]
          \/ stylingConfig' =
                [formConfig EXCEPT
                    !.enable_language_prefix = ~formConfig.enable_language_prefix]
    /\ UNCHANGED <<show, analysis, currentStep, primaryLanguage, secondaryLanguage,
                   jobId, selPrimary, selSecondary, postInFlight, postCount,
                   wizardOpen>>

\* the request ProcessingStep's effect posts to /api/jobs/bulk-dual-subtitle,
\* built from the props of the render that mounted it
BulkRequest ==
    [primary_language |-> primaryLanguage,
     secondary_language |-> secondaryLanguage,
     styling_config |-> stylingConfig]

\* handleStartProcessing behind a button that is never disabled
StartProcessing_NeverDisabled ==
    /\ wizardOpen /\ currentStep = "preview"
    /\ postCount < MaxPosts
    /\ currentStep' = "processing"
    /\ postCount' = postCount + 1
    /\ postInFlight' = postInFlight \cup {postCount + 1}
    /\ UNCHANGED <<show, analysis, primaryLanguage, secondaryLanguage,
                   stylingConfig, jobId, selPrimary, selSecondary, wizardOpen>>

\* START PROCESSING (disabled while readyCount = 0) -> handleStartProcessing;
\* ProcessingStep mounts and its effect sends the creation request
StartProcessing ==
    /\ wizardOpen /\ currentStep = "preview"
    /\ readyCount # 0
    /\ postCount < MaxPosts
    /\ currentStep' = "processing"
    /\ postCount' = postCount + 1
    /\ postInFlight' = postInFlight \cup {postCount + 1}
    /\ UNCHANGED <<show, analysis, primaryLanguage, secondaryLanguage,
                   stylingConfig, jobId, selPrimary, selSecondary, wizardOpen>>

\* the creation request resolves: onJobIdReceived = handleJobStarted (a state
\* update of an unmounted wizard changes nothing)
JobStarted ==
    /\ \E n \in postInFlight :
          /\ postInFlight' = postInFlight \ {n}
          /\ IF wizardOpen
             THEN /\ jobId' = n
                  /\ currentStep' = "results"
                  \* leaving discovery unmounts LanguageDiscoveryStep
                  /\ selPrimary' = ""
                  /\ selSecondary' = ""
             ELSE UNCHANGED <<jobId, currentStep, selPrimary, selSecondary>>
    /\ UNCHANGED <<show, analysis, primaryLanguage, secondaryLanguage,
                   stylingConfig, postCount, wizardOpen>>

\* the creation request rejects: ProcessingStep shows its error
JobStartFailed ==
    /\ \E n \in postInFlight : postInFlight' = postInFlight \ {n}
    /\ UNCHANGED <<show, analysis, currentStep, primaryLanguage, secondaryLanguage,
                   stylingConfig, jobId, selPrimary, selSecondary, postCount,
                   wizardOpen>>

\* the header's back button (rendered when canGoBack) -> handleBack
Back ==
    /\ wizardOpen /\ CanGoBack
    /\ \/ /\ currentStep = "preview"
          /\ currentStep' = "discovery"
          \* LanguageDiscoveryStep mounts: useState(selectedPrimary / Secondary)
          /\ SetSelection(primaryLanguage, secondaryLanguage)
       \/ /\ currentStep = "processing"
          /\ currentStep' = "preview"
          /\ UNCHANGED <<selPrimary, selSecondary>>
    /\ UNCHANGED <<show, analysis, primaryLanguage, secondaryLanguage,
                   stylingConfig, jobId, postInFlight, postCount, wizardOpen>>

\* the close button, CANCEL, CLOSE: onClose unmounts the wizard, whose state
\* is discarded
Close ==
    /\ wizardOpen
    /\ wizardOpen' = FALSE
    /\ analysis' = NoAnalysis
    /\ currentStep' = "discovery"
    /\ primaryLanguage' = ""
    /\ secondaryLanguage' = ""
    /\ stylingConfig' = InitialStylingConfig
    /\ jobId' = 0
    /\ selPrimary' = ""
    /\ selSecondary' = ""
    /\ UNCHANGED <<show, postInFlight, postCount>>

WizardInit ==
    /\ show \in WizardShows
    /\ analysis = NoAnalysis
    /\ currentStep = "discovery"
    /\ primaryLanguage = ""
    /\ secondaryLanguage = ""
    /\ stylingConfig = InitialStylingConfig
    /\ jobId = 0
    /\ selPrimary = ""
    /\ selSecondary = ""
    /\ postInFlight = {}
    /\ postCount = 0
    /\ wizardOpen = TRUE

\* the wizard is not mounted
WizardIdle ==
    /\ show = <<>>
    /\ analysis = NoAnalysis
    /\ currentStep = "discovery"
    /\ primaryLanguage = ""
    /\ secondaryLanguage = ""
    /\ stylingConfig = InitialStylingConfig
    /\ jobId = 0
    /\ selPrimary = ""
    /\ selSecondary = ""
    /\ postInFlight = {}
    /\ postCount = 0
    /\ wizardOpen = FALSE

--------------------------------------------------------------------------
(* ProcessingStep as the wizard mounts it: the effect that sends the bulk  *)
(* job creation request.  The props showId and episodeConfigs are not      *)
(* followed; onComplete and onJobIdReceived are useCallback(..., []) of    *)
(* the wizard and are the same functions in every render.                  *)

\* no ProcessingStep is mounted
NoDeps == <<>>

\* a dependency array that holds a value the response of the request changes
EffectDeps_WithRequests ==
    <<primaryLanguage, secondaryLanguage, stylingConfig, postInFlight>>

\* the dependency array of the effect in a render with the wizard's state
EffectDeps == <<primaryLanguage, secondaryLanguage, stylingConfig>>

\* a render of the mounted ProcessingStep (after a state update of the step
\* or of the wizard): the effect runs again, and posts again, when a
\* dependency differs from the one of its last run
ProcessingRender ==
    /\ wizardOpen /\ currentStep = "processing"
    /\ IF EffectDeps # effectDeps
       THEN /\ postCount < MaxPosts
            /\ postCount' = postCount + 1
            /\ postInFlight' = postInFlight \cup {postCount + 1}
            /\ effectDeps' = EffectDeps
            /\ effectPosts' = effectPosts + 1
            /\ UNCHANGED <<show, analysis, currentStep, primaryLanguage,
                           secondaryLanguage, stylingConfig, jobId, selPrimary,
                           selSecondary, wizardOpen>>
       ELSE UNCHANGED <<wizardVars, effectVars, startVars, busyVars>>

\* what a handler of the wizard does to the step: currentStep === 'processing'
\* mounts it, and the effect runs with the props of that render (its request
\* is the one StartProcessing sends); any other step unmounts it
EffectFollows ==
    IF wizardOpen' /\ currentStep' = "processing"
    THEN IF wizardOpen /\ currentStep = "processing"
         THEN UNCHANGED effectVars
         ELSE /\ effectDeps' = EffectDeps'
              /\ effectPosts' = 1
    ELSE /\ effectDeps' = NoDeps
         /\ effectPosts' = 0

\* no ProcessingStep is mounted
EffectIdle ==
    /\ effectDeps = NoDeps
    /\ effectPosts = 0

--------------------------------------------------------------------------
(* DualSubtitleCreator.  The two style checkboxes are copied into the     *)
(* request unchanged and take no part in the selection logic; they are not *)
(* modelled.                                                               *)

\* the external files and embedded streams a media item can have
ExternalFiles ==
    { [file_name |-> "ep.en.srt", file_path |-> "/m/ep.en.srt", language_code |-> "en"],
      [file_name |-> "ep.srt",    file_path |-> "/m/ep.srt",    language_code |-> ""] }

EmbeddedStreams ==
    { [stream_index |-> 2, codec |-> "subrip", language |-> "en"],
      [stream_index |-> 3, codec |-> "ass",    language |-> "ja"] }

\* a listing holds each file / stream once
Listings(S, n) ==
    {l \in UNION { [1..k -> S] : k \in 0..n } :
        \A a \in 1..Len(l), b \in 1..Len(l) : a # b => l[a] # l[b]}

NoSelection == ""
NoRequest == [primary_subtitle |-> ""]

\* `external_${index}` and `embedded_${stream_index}`
ExternalId(index) ==
    <<"external_0", "external_1", "external_2", "external_3">>[index + 1]

EmbeddedId(stream_index) ==
    IF stream_index = 2 THEN "embedded_2" ELSE "embedded_3"

\* the value of find() when no option matches; its fields read as undefined
NoOption ==
    [id |-> "", language_code |-> "", type |-> "", file_path |-> "",
     stream_index |-> -1, codec |-> ""]

\* subtitleOptions: the unified options, externals first
SubtitleOptions(ext, emb) ==
    [i \in 1..Len(ext) |->
        [id |-> ExternalId(i - 1),
         language_code |-> ext[i].language_code,
         type |-> "external",
         file_path |-> ext[i].file_path,
         stream_index |-> -1,
         codec |-> ""]]
    \o
    [i \in 1..Len(emb) |->
        [id |-> EmbeddedId(emb[i].stream_index),
         language_code |-> emb[i].language,
         type |-> "embedded",
         file_path |-> "",
         stream_index |-> emb[i].stream_index,
         codec |-> emb[i].codec]]

subtitleOptions == SubtitleOptions(externalSubtitles, embeddedSubtitles)

OptionIds == {subtitleOptions[i].id : i \in 1..Len(subtitleOptions)}

\* subtitleOptions.find(s => s.id === id): the first match
FindOption(id) ==
    LET hits == {i \in 1..Len(subtitleOptions) : subtitleOptions[i].id = id}
    IN IF hits = {} THEN NoOption
       ELSE subtitleOptions[CHOOSE i \in hits : \A j \in hits : i <= j]

primarySubtitle == FindOption(config.primary_subtitle)
secondarySubtitle == FindOption(config.secondary_subtitle)

\* x?.field || fallback, for the string fields
FieldOr(opt, field, fallback) ==
    IF opt[field] = "" THEN fallback ELSE opt[field]

BuildRequestData ==
    [primary_subtitle |-> FieldOr(primarySubtitle, "file_path", config.primary_subtitle),
     secondary_subtitle |-> FieldOr(secondarySubtitle, "file_path", config.secondary_subtitle),
     primary_source_type |-> FieldOr(primarySubtitle, "type", "external"),
     primary_stream_index |-> primarySubtitle.stream_index,
     primary_codec |-> primarySubtitle.codec,
     primary_language |-> FieldOr(primarySubtitle, "language_code", ""),
     secondary_source_type |-> FieldOr(secondarySubtitle, "type", "external"),
     secondary_stream_index |-> secondarySubtitle.stream_index,
     secondary_codec |-> secondarySubtitle.codec,
     secondary_language |-> FieldOr(secondarySubtitle, "language_code", "")]

UsesEmbedded ==
    primarySubtitle.type = "embedded" \/ secondarySubtitle.type = "embedded"

\* a plausible slip: the two selections are not compared
CanProceed_NoDistinct ==
    config.primary_subtitle # NoSelection /\ config.secondary_subtitle # NoSelection

CanProceed ==
    /\ config.primary_subtitle # NoSelection
    /\ config.secondary_subtitle # NoSelection
    /\ config.primary_subtitle # config.secondary_subtitle

createPending == createRequest # NoRequest
previewPending == previewRequest # NoRequest

\* Primary (Top) select: the placeholder or any option
PrimarySubtitleChange ==
    /\ \E v \in {NoSelection} \cup OptionIds :
          /\ v # config.primary_subtitle
          /\ config' = [config EXCEPT !.primary_subtitle = v]
    /\ UNCHANGED <<externalSubtitles, embeddedSubtitles, createRequest, previewRequest>>

\* Secondary (Bottom) select: the placeholder or any option but the primary
SecondarySubtitleChange ==
    /\ \E v \in {NoSelection} \cup (OptionIds \ {config.primary_subtitle}) :
          /\ v # config.secondary_subtitle
          /\ config' = [config EXCEPT !.secondary_subtitle = v]
    /\ UNCHANGED <<externalSubtitles, embeddedSubtitles, createRequest, previewRequest>>

\* Preview button (rendered when canProceed, disabled while pending or with
\* an embedded source) -> handlePreview -> previewMutation.mutate()
HandlePreview ==
    /\ CanProceed
    /\ ~previewPending /\ ~UsesEmbedded
    /\ config.primary_subtitle # NoSelection /\ config.secondary_subtitle # NoSelection
    /\ previewRequest' = BuildRequestData
    /\ UNCHANGED <<externalSubtitles, embeddedSubtitles, config, createRequest>>

\* Create Dual Subtitle button (rendered when canProceed, disabled while
\* pending) -> handleCreate -> createMutation.mutate()
HandleCreate ==
    /\ CanProceed
    /\ ~createPending
    /\ config.primary_subtitle # NoSelection /\ config.secondary_subtitle # NoSelection
    /\ createRequest' = BuildRequestData
    /\ UNCHANGED <<externalSubtitles, embeddedSubtitles, config, previewRequest>>

\* the preview request settles (the modal opens on success)
PreviewSettled ==
    /\ previewPending
    /\ previewRequest' = NoRequest
    /\ UNCHANGED <<externalSubtitles, embeddedSubtitles, config, createRequest>>

\* the create request settles; on success onCreated makes the parent fetch
\* the subtitles again, and the props change
CreateSettled ==
    /\ createPending
    /\ createRequest' = NoRequest
    /\ \/ UNCHANGED externalSubtitles
       \/ externalSubtitles' \in Listings(ExternalFiles, MaxExternal)
    /\ UNCHANGED <<embeddedSubtitles, config, previewRequest>>

\* the parent renders the creator with another listing (upload, extract, delete)
SubtitlesRefetched ==
    /\ externalSubtitles' \in Listings(ExternalFiles, MaxExternal)
    /\ externalSubtitles' # externalSubtitles
    /\ UNCHANGED <<embeddedSubtitles, config, createRequest, previewRequest>>

InitialConfig ==
    [primary_subtitle |-> NoSelection, secondary_subtitle |-> NoSelection]

CreatorInit ==
    /\ externalSubtitles \in Listings(ExternalFiles, MaxExternal)
    /\ embeddedSubtitles \in Listings(EmbeddedStreams, MaxEmbedded)
    /\ config = InitialConfig
    /\ createRequest = NoRequest
    /\ previewRequest = NoRequest

\* the creator is not mounted
CreatorIdle ==
    /\ externalSubtitles = <<>>
    /\ embeddedSubtitles = <<>>
    /\ config = InitialConfig
    /\ createRequest = NoRequest
    /\ previewRequest = NoRequest

--------------------------------------------------------------------------
(* File names.  A string is a sequence of one-character strings.           *)

LowerLetters ==
    <<"a", "b", "c", "d", "e", "f", "g", "h", "i", "j", "k", "l", "m",
      "n", "o", "p", "q", "r", "s", "t", "u", "v", "w", "x", "y", "z">>

UpperLetters ==
    <<"A", "B", "C", "D", "E", "F", "G", "H", "I", "J", "K", "L", "M",
      "N", "O", "P", "Q", "R", "S", "T", "U", "V", "W", "X", "Y", "Z">>

Digits == {"0", "1", "2", "3", "4", "5", "6", "7", "8", "9"}

\* [a-zA-Z]
IsLetter(c) == c \in Range(LowerLetters) \cup Range(UpperLetters)

\* String.prototype.toLowerCase, one character
LowerChar(c) ==
    IF c \in Range(UpperLetters)
    THEN LowerLetters[CHOOSE i \in 1..26 : UpperLetters[i] = c]
    ELSE c

ToLowerCase(str) == [i \in 1..Len(str) |-> LowerChar(str[i])]

\* String.prototype.trim
RECURSIVE TrimStart(_)
TrimStart(str) ==
    IF str # <<>> /\ Head(str) = " " THEN TrimStart(Tail(str)) ELSE str

RECURSIVE TrimEnd(_)
TrimEnd(str) ==
    IF str # <<>> /\ str[Len(str)] = " "
    THEN TrimEnd(SubSeq(str, 1, Len(str) - 1))
    ELSE str

Trim(str) == TrimEnd(TrimStart(str))

\* String.prototype.split('.')
RECURSIVE SplitDots(_, _)
SplitDots(str, part) ==
    IF str = <<>> THEN <<part>>
    ELSE IF Head(str) = "." THEN <<part>> \o SplitDots(Tail(str), <<>>)
    ELSE SplitDots(Tail(str), Append(part, Head(str)))

RECURSIVE Join(_, _)
\* the parts joined by sep
Join(parts, sep) ==
    IF parts = <<>> THEN <<>>
    ELSE IF Len(parts) = 1 THEN parts[1]
    ELSE parts[1] \o sep \o Join(Tail(parts), sep)

\* rows of COMPREHENSIVE_LANGUAGES
LanguageTable ==
    <<
      [code |-> <<"e", "n">>,
       commonCodes |-> <<<<"e", "n">>, <<"e", "n", "g">>, <<"e", "n", "g", "l", "i", "s", "h">>>>],   \* languages.ts:21
      [code |-> <<"z", "h">>,
       commonCodes |-> <<<<"z", "h">>, <<"z", "h", "-", "c", "n">>, <<"z", "h", "-", "h", "a", "n", "s">>, <<"z", "h", "s">>, <<"c", "h", "i">>, <<"c", "h", "i", "n", "e", "s", "e">>, <<"c", "h", "s">>>>],   \* languages.ts:22
      [code |-> <<"z", "h", "-", "T", "W">>,
       commonCodes |-> <<<<"z", "h", "-", "t", "w">>, <<"z", "h", "-", "h", "k">>, <<"z", "h", "-", "h", "a", "n", "t">>, <<"z", "h", "t">>, <<"c", "h", "t">>, <<"t", "c">>, <<"t", "r", "a", "d", "i", "t", "i", "o", "n", "a", "l">>>>],   \* languages.ts:23
      [code |-> <<"j", "a">>,
       commonCodes |-> <<<<"j", "a">>, <<"j", "p">>, <<"j", "p", "n">>, <<"j", "a", "p", "a", "n", "e", "s", "e">>>>],   \* languages.ts:31
      [code |-> <<"p", "t", "-", "B", "R">>,
       commonCodes |-> <<>>],   \* languages.ts:117
      [code |-> <<"h", "a", "w">>,
       commonCodes |-> <<>>]    \* languages.ts:148
    >>

LanguageCodes == {LanguageTable[i].code : i \in 1..Len(LanguageTable)}

--------------------------------------------------------------------------
(* SubtitleManager.parseDualLanguages: the regular expression              *)
(*   \.dual\.(G)-(G)\.[^.]+$    with G = [a-zA-Z]{2,3}(?:-[a-zA-Z]{2,4})?   *)
(* matched as a backtracking engine does: the leftmost start, and for each *)
(* group the longest alternative first.                                    *)

\* the ways G can match, in the engine's order of preference: the number of
\* letters of the language part, and of the optional region part (0: absent)
GroupOptions ==
    << <<3, 4>>, <<3, 3>>, <<3, 2>>, <<3, 0>>,
       <<2, 4>>, <<2, 3>>, <<2, 2>>, <<2, 0>> >>

GroupLen(o) == o[1] + (IF o[2] = 0 THEN 0 ELSE 1 + o[2])

LettersAt(str, pos, n) ==
    /\ pos + n - 1 <= Len(str)
    /\ \A k \in pos..(pos + n - 1) : IsLetter(str[k])

CharAt(str, pos, c) == pos <= Len(str) /\ str[pos] = c

GroupMatches(str, pos, o) ==
    /\ LettersAt(str, pos, o[1])
    /\ o[2] # 0 => (CharAt(str, pos + o[1], "-") /\ LettersAt(str, pos + o[1] + 1, o[2]))

\* \.[^.]+$
TailMatches(str, pos) ==
    /\ CharAt(str, pos, ".")
    /\ pos + 1 <= Len(str)
    /\ \A k \in (pos + 1)..Len(str) : str[k] # "."

DualLiteral == <<".", "d", "u", "a", "l", ".">>

\* the whole expression matches from start with options a and b for the groups
MatchesAt(str, start, a, b) ==
    LET g1 == start + Len(DualLiteral)
        g2 == g1 + GroupLen(GroupOptions[a]) + 1
    IN /\ start + Len(DualLiteral) - 1 <= Len(str)
       /\ SubSeq(str, start, start + Len(DualLiteral) - 1) = DualLiteral
       /\ GroupMatches(str, g1, GroupOptions[a])
       /\ CharAt(str, g2 - 1, "-")
       /\ GroupMatches(str, g2, GroupOptions[b])
       /\ TailMatches(str, g2 + GroupLen(GroupOptions[b]))

NoMatch == <<>>

ParseDualLanguages(str) ==
    LET n == Len(GroupOptions)
        tries == {t \in (1..Len(str)) \X (1..n) \X (1..n) : MatchesAt(str, t[1], t[2], t[3])}
        rank(t) == (t[1] * n + t[2]) * n + t[3]
    IN IF tries = {} THEN NoMatch
       ELSE LET t == CHOOSE x \in tries : \A y \in tries : rank(x) <= rank(y)
                g1 == t[1] + Len(DualLiteral)
                g2 == g1 + GroupLen(GroupOptions[t[2]]) + 1
            IN << SubSeq(str, g1, g1 + GroupLen(GroupOptions[t[2]]) - 1),
                  SubSeq(str, g2, g2 + GroupLen(GroupOptions[t[3]]) - 1) >>

\* the name a dual subtitle file is written under: *.dual.{lang1}-{lang2}.srt
DualFileName(base, lang1, lang2) ==
    base \o DualLiteral \o lang1 \o <<"-">> \o lang2 \o <<".", "s", "r", "t">>

BaseNames ==
    { <<"M", "o", "v", "i", "e">>,
      <<"S", "h", "o", "w", ".", "S", "0", "1", "E", "0", "2">> }

Unparsed == <<"?">>

\* a dual subtitle file is written for a pair of table codes
DualFileWritten ==
    /\ \E base \in BaseNames, lang1 \in LanguageCodes, lang2 \in LanguageCodes :
          /\ fileName' = DualFileName(base, lang1, lang2)
          /\ namedLanguages' = <<lang1, lang2>>
    /\ fileName' # fileName
    /\ dualLanguages' = Unparsed
    /\ UNCHANGED foundLanguages

\* the external file list is rendered: parseDualLanguages(sub.file_name)
ParseDualFile ==
    /\ dualLanguages = Unparsed
    /\ dualLanguages' = ParseDualLanguages(fileName)
    /\ UNCHANGED <<fileName, namedLanguages, foundLanguages>>

NamingInit ==
    /\ \E base \in BaseNames, lang1 \in LanguageCodes, lang2 \in LanguageCodes :
          /\ fileName = DualFileName(base, lang1, lang2)
          /\ namedLanguages = <<lang1, lang2>>
    /\ dualLanguages = Unparsed
    /\ foundLanguages = Unparsed

\* no file name is looked at
FilesIdle ==
    /\ fileName = <<>>
    /\ namedLanguages = <<>>
    /\ dualLanguages = Unparsed
    /\ foundLanguages = Unparsed

--------------------------------------------------------------------------
(* data/languages: getLanguageByCommonCode, extractLanguageFromFilename    *)

NoLanguage == 0

\* the least number of a non-empty set
Least(S) == CHOOSE x \in S : \A y \in S : x <= y

\* lang.code.toLowerCase() === normalizedCode ||
\* lang.commonCodes?.some(c => c.toLowerCase() === normalizedCode)
LanguageKnownAs(lang, normalizedCode) ==
    \/ ToLowerCase(lang.code) = normalizedCode
    \/ \E k \in 1..Len(lang.commonCodes) :
          ToLowerCase(lang.commonCodes[k]) = normalizedCode

\* the row of the table that Array.find returns, or NoLanguage
GetLanguageByCommonCode(code) ==
    LET normalizedCode == Trim(ToLowerCase(code))
        rows == {i \in 1..Len(LanguageTable) : LanguageKnownAs(LanguageTable[i], normalizedCode)}
    IN IF rows = {} THEN NoLanguage ELSE Least(rows)

SkippedWords ==
    { <<"s", "r", "t">>,
      <<"a", "s", "s">>,
      <<"v", "t", "t">>,
      <<"s", "u", "b">>,
      <<"i", "d", "x">>,
      <<"s", "s", "a">>,
      <<"t", "x", "t">> }

AllDigits(str) == str # <<>> /\ \A k \in 1..Len(str) : str[k] \in Digits

\* \d+ sep \d+
DigitsAround(str, sep) ==
    \E k \in 1..Len(str) :
        /\ str[k] = sep
        /\ AllDigits(SubSeq(str, 1, k - 1))
        /\ AllDigits(SubSeq(str, k + 1, Len(str)))

\* /^(srt|ass|vtt|sub|idx|ssa|txt|s\d+e\d+|\d+x\d+)$/
SkippedPart(part) ==
    \/ part \in SkippedWords
    \/ part # <<>> /\ Head(part) = "s" /\ DigitsAround(Tail(part), "e")
    \/ DigitsAround(part, "x")

\* a plausible slip: the check for an already found language is left out
AlreadyFound_Never(found, row) == FALSE

\* foundLanguages.find(l => l.code === language.code)
AlreadyFound(found, row) ==
    \E k \in 1..Len(found) : LanguageTable[found[k]].code = LanguageTable[row].code

RECURSIVE ExtractFromParts(_, _)
\* the loop over the parts; found holds rows of the table
ExtractFromParts(parts, found) ==
    IF parts = <<>> THEN found
    ELSE LET part == Head(parts)
             language == GetLanguageByCommonCode(part)
         IN IF SkippedPart(part) THEN ExtractFromParts(Tail(parts), found)
            ELSE IF language # NoLanguage /\ ~AlreadyFound(found, language)
            THEN ExtractFromParts(Tail(parts), Append(found, language))
            ELSE ExtractFromParts(Tail(parts), found)

\* the codes of the languages returned, in the order returned
ExtractLanguageFromFilename(filename) ==
    LET normalizedFilename == ToLowerCase(filename)
        found == ExtractFromParts(SplitDots(normalizedFilename, <<>>), <<>>)
    IN [k \in 1..Len(found) |-> LanguageTable[found[k]].code]

\* segments that file names are put together from
Segments ==
    { <<"M", "o", "v", "i", "e">>,
      <<"E", "N">>,
      <<"e", "n", "g">>,
      <<" ", "e", "n">>,
      <<"j", "p">>,
      <<"t", "c">>,
      <<"p", "t", "-", "B", "R">>,
      <<"s", "r", "t">>,
      <<"S", "0", "1", "E", "0", "2">>,
      <<"1", "x", "0", "2">> }

FileNames ==
    UNION {{Join(parts, <<".">>) : parts \in [1..n -> Segments]} : n \in 1..MaxSegments}

\* a file name is looked at
ExtractLanguages ==
    /\ foundLanguages = Unparsed
    /\ foundLanguages' = ExtractLanguageFromFilename(fileName)
    /\ UNCHANGED <<fileName, namedLanguages, dualLanguages>>

LanguageInit ==
    /\ fileName \in FileNames
    /\ namedLanguages = <<>>
    /\ dualLanguages = Unparsed
    /\ foundLanguages = Unparsed

--------------------------------------------------------------------------
(* The job store and the bulk orchestrator.  One bulk job is followed; its *)
(* episodes are numbered 1..total in worklist order.                       *)

NoError == ""

JobStatuses == {"pending", "running", "completed", "failed", "cancelled"}

TerminalStatuses == {"completed", "failed", "cancelled"}

Outcomes == {"successful", "failed", "skipped"}

\* the Job has no result yet
NoResult == [recorded |-> FALSE, successful |-> <<>>, failed |-> <<>>, skipped |-> <<>>]

IsTerminal(j) == j.status \in TerminalStatuses

\* the episodes with the given outcome, in the order processed
ItemsWith(done, outcome) == SeqFilterIdx([i \in 1..Len(done) |-> i], {i \in 1..Len(done) : done[i] = outcome}, 1)

\* the structured result of the episodes processed
ResultOf(done) ==
    [recorded |-> TRUE,
     successful |-> ItemsWith(done, "successful"),
     failed |-> ItemsWith(done, "failed"),
     skipped |-> ItemsWith(done, "skipped")]

Percentage(processed, total) == (processed * 100) \div total

\* Create(kind, payload): a bulk job over total episodes
Create(total) ==
    [status |-> "pending", processed |-> 0, total |-> total, percentage |-> 0,
     result |-> NoResult, error |-> NoError, cancel_requested |-> FALSE]

\* UpdateProgress(JobId, progress)
UpdateProgress(j, processed) ==
    IF IsTerminal(j) THEN j
    ELSE [j EXCEPT !.processed = processed, !.percentage = Percentage(processed, j.total)]

\* Complete(JobId, result)
Complete(j, result) ==
    IF IsTerminal(j) THEN j
    ELSE [j EXCEPT !.status = "completed", !.result = result]

\* Fail(JobId, error)
Fail(j, error) ==
    IF IsTerminal(j) THEN j
    ELSE [j EXCEPT !.status = "failed", !.error = error]

\* a plausible slip: the request is recorded whatever the status
Cancel_Always(j) == [job |-> [j EXCEPT !.cancel_requested = TRUE], ok |-> TRUE]

\* Cancel(JobId) -> bool: the job afterwards and the value returned
Cancel(j) ==
    IF j.status \in {"pending", "running"}
    THEN [job |-> [j EXCEPT !.cancel_requested = TRUE], ok |-> TRUE]
    ELSE [job |-> j, ok |-> FALSE]

\* the cancellation request is honoured: the job ends with its partial result
Cancelled(j, result) ==
    IF IsTerminal(j) THEN j
    ELSE [j EXCEPT !.status = "cancelled", !.result = result]

\* a plausible slip: the count of the previous update with the rest of this one
Get_Torn(j) == [j EXCEPT !.processed = IF j.processed > 0 THEN j.processed - 1 ELSE 0]

\* Get(JobId): the record as committed
Get(j) == j

\* a plausible slip: a failed episode fails the job
StatusAfterItem_FailFast(j, outcome) ==
    IF outcome = "failed" THEN Fail(j, "episode failed") ELSE j

\* the job after an episode ended with the outcome: per-item failures are
\* recorded, they do not fail the job
StatusAfterItem(j, outcome) == j

\* pending -> running: the scheduler dequeues the job
StartJob ==
    /\ job.status = "pending"
    /\ job' = [job EXCEPT !.status = "running"]
    /\ UNCHANGED <<outcomes, itemInFlight>>

\* the checkpoint between episodes found no request: the next episode starts
BeginItem ==
    /\ job.status = "running"
    /\ ~itemInFlight
    /\ ~job.cancel_requested
    /\ job.processed < job.total
    /\ itemInFlight' = TRUE
    /\ UNCHANGED <<job, outcomes>>

\* the episode in flight ends, its outcome is classified, progress is updated
FinishItem ==
    /\ job.status = "running"
    /\ itemInFlight
    /\ \E outcome \in Outcomes :
          /\ outcomes' = Append(outcomes, outcome)
          /\ job' = UpdateProgress(StatusAfterItem(job, outcome), job.processed + 1)
    /\ itemInFlight' = FALSE

\* running -> cancelled: the request is observed at the checkpoint
ObserveCancel ==
    /\ job.status = "running"
    /\ ~itemInFlight
    /\ job.cancel_requested
    /\ job.processed < job.total
    /\ job' = Cancelled(job, ResultOf(outcomes))
    /\ UNCHANGED <<outcomes, itemInFlight>>

\* running -> completed: all episodes are processed
CompleteJob ==
    /\ job.status = "running"
    /\ ~itemInFlight
    /\ job.processed = job.total
    /\ job' = Complete(job, ResultOf(outcomes))
    /\ UNCHANGED <<outcomes, itemInFlight>>

\* running -> failed: the orchestration itself fails
OrchestrationError ==
    /\ job.status = "running"
    /\ ~itemInFlight
    /\ job' = Fail(job, "orchestration error")
    /\ UNCHANGED <<outcomes, itemInFlight>>

\* POST /api/jobs/{id}/cancel from some other client
CancelRequested ==
    /\ job' = Cancel(job).job
    /\ job' # job
    /\ UNCHANGED <<outcomes, itemInFlight>>

JobsInit ==
    /\ job \in {Create(total) : total \in 1..MaxItems}
    /\ outcomes = <<>>
    /\ itemInFlight = FALSE

\* no job is followed
JobsIdle ==
    /\ job = Create(1)
    /\ outcomes = <<>>
    /\ itemInFlight = FALSE

--------------------------------------------------------------------------
(* ProcessingStep: startBackgroundJob from its await of the creation       *)
(* request on, the polling of the job and the cleanup of the effect.  The  *)
(* parent decides when the step unmounts.                                  *)

NoStatus == ""

\* no setTimeout is pending
NoTimer == EmptyBag

\* no request is on its way
NoResponses == EmptyBag

\* onComplete has not been called
NoCalls == <<>>

\* job.result || { successful: [], failed: [], skipped: [] }
ResultOrEmpty(j) == IF j.result.recorded THEN j.result ELSE [NoResult EXCEPT !.recorded = TRUE]

\* the then-callback of the cleanup is in the microtask queue: it was
\* registered and the promise has resolved.  It runs before any timer.
ThenQueued == cleanupThen = "waiting" /\ intervalPromise # "pending"

\* the creation request resolves: onJobIdReceived(jobId) is called, the
\* interval is set and the promise resolves with it
JobCreated ==
    /\ intervalPromise = "pending"
    /\ intervalPromise' = "interval"
    /\ pollInterval' = TRUE
    /\ UNCHANGED cleanupThen
    /\ UNCHANGED <<mounted, pollResponses, polledStatus, progress,
                   processingError, isProcessing, completeTimer, results>>

\* the interval fires: GET /api/jobs/{jobId} is answered from the store
PollTick ==
    /\ pollInterval
    /\ ~ThenQueued
    /\ BagCardinality(pollResponses) < MaxInFlight
    /\ pollResponses' = pollResponses (+) SetToBag({Get(job)})
    /\ UNCHANGED <<mounted, pollInterval, polledStatus, progress,
                   processingError, isProcessing, completeTimer, results>>

\* the request fails: the catch block ignores it
PollFailed ==
    /\ \E r \in BagToSet(pollResponses) :
          pollResponses' = pollResponses (-) SetToBag({r})
    /\ UNCHANGED <<mounted, pollInterval, polledStatus, progress,
                   processingError, isProcessing, completeTimer, results>>

\* state setters act on a mounted component only
SetState(new, old) == IF mounted THEN new ELSE old

\* a response arrives: the body of the interval callback after the await
PollHandled ==
    \E r \in BagToSet(pollResponses) :
        /\ pollResponses' = pollResponses (-) SetToBag({r})
        /\ polledStatus' = r.status
        /\ pollInterval' = IF r.status \in TerminalStatuses THEN FALSE ELSE pollInterval
        /\ progress' = SetState(IF r.status = "completed" THEN 100 ELSE r.percentage, progress)
        /\ isProcessing' = SetState(IF r.status \in TerminalStatuses THEN FALSE ELSE isProcessing,
                                    isProcessing)
        /\ processingError' =
              SetState(CASE r.status = "failed" ->
                                IF r.error # NoError THEN r.error ELSE "Job failed"
                         [] r.status = "cancelled" -> "Job was cancelled"
                         [] OTHER -> processingError,
                       processingError)
        /\ completeTimer' = IF r.status = "completed"
                            THEN completeTimer (+) SetToBag({ResultOrEmpty(r)})
                            ELSE completeTimer
        /\ UNCHANGED <<mounted, results>>

\* a timeout set on completion fires: onComplete(result)
CompleteTimeout ==
    /\ \E t \in BagToSet(completeTimer) :
          /\ results' = Append(results, t)
          /\ completeTimer' = completeTimer (-) SetToBag({t})
    /\ UNCHANGED <<mounted, pollInterval, pollResponses, polledStatus, progress,
                   processingError, isProcessing>>

\* the creation request rejects: the catch block; the promise resolves
\* with undefined
JobCreateFailed ==
    /\ intervalPromise = "pending"
    /\ intervalPromise' = "undefined"
    /\ processingError' = SetState("Failed to start processing", processingError)
    /\ isProcessing' = SetState(FALSE, isProcessing)
    /\ UNCHANGED cleanupThen
    /\ UNCHANGED <<mounted, pollInterval, pollResponses, polledStatus, progress,
                   completeTimer, results>>

\* a cleanup that clears an interval only when it holds one, not a promise
Unmount_NoThen ==
    /\ mounted
    /\ mounted' = FALSE
    /\ cleanupThen' = "done"
    /\ progress' = 0
    /\ processingError' = NoError
    /\ isProcessing' = TRUE
    /\ UNCHANGED intervalPromise
    /\ UNCHANGED <<pollInterval, pollResponses, polledStatus, completeTimer, results>>

\* the component unmounts: the cleanup registers its then-callback on the
\* promise, the state is gone
Unmount ==
    /\ mounted
    /\ mounted' = FALSE
    /\ cleanupThen' = "waiting"
    /\ progress' = 0
    /\ processingError' = NoError
    /\ isProcessing' = TRUE
    /\ UNCHANGED intervalPromise
    /\ UNCHANGED <<pollInterval, pollResponses, polledStatus, completeTimer, results>>

\* the then-callback of the cleanup runs: if (interval) clearInterval(interval)
CleanupThen ==
    /\ ThenQueued
    /\ cleanupThen' = "done"
    /\ pollInterval' = FALSE
    /\ UNCHANGED intervalPromise
    /\ UNCHANGED <<mounted, pollResponses, polledStatus, progress,
                   processingError, isProcessing, completeTimer, results>>

PollingInit ==
    /\ mounted = TRUE
    /\ pollInterval = FALSE
    /\ intervalPromise = "pending"
    /\ cleanupThen = "none"
    /\ pollResponses = NoResponses
    /\ polledStatus = NoStatus
    /\ progress = 0
    /\ processingError = NoError
    /\ isProcessing = TRUE
    /\ completeTimer = NoTimer
    /\ results = NoCalls

\* no ProcessingStep has started a job
StartIdle ==
    /\ intervalPromise = "none"
    /\ cleanupThen = "none"

\* no ProcessingStep is mounted
PollingIdle ==
    /\ mounted = FALSE
    /\ pollInterval = FALSE
    /\ pollResponses = NoResponses
    /\ polledStatus = NoStatus
    /\ progress = 0
    /\ processingError = NoError
    /\ isProcessing = TRUE
    /\ completeTimer = NoTimer
    /\ results = NoCalls

--------------------------------------------------------------------------
(* JobDetailModal.  The requests followed are the fetch at mount and the   *)
(* cancel request with the fetch that follows it, and the callback of the  *)
(* interval.  The modal is followed for one jobId, so the effect runs once *)
(* (deps [jobId]) and its callback keeps the job of the mount render.      *)

\* useState<Job | null>(null)
NoJob == [status |-> "null"]

NoReply == [served |-> FALSE, ok |-> FALSE, returned |-> FALSE, job |-> NoJob]

\* the modal body with the job is rendered
JobRendered == ~isLoading /\ modalError = NoError /\ modalJob # NoJob

\* a Cancel button that is not disabled while a cancel is under way
CancelButton_NeverDisabled ==
    /\ JobRendered
    /\ modalJob.status \in {"pending", "running"}

\* the Cancel button is rendered and enabled
CancelButton ==
    /\ JobRendered
    /\ modalJob.status \in {"pending", "running"}
    /\ ~isCancelling

\* job.result && job.status === 'completed': the Results section is rendered
ResultsShown ==
    /\ JobRendered
    /\ modalJob.result.recorded
    /\ modalJob.status = "completed"

\* GET /api/jobs/{jobId} is answered from the store, or fails
ModalFetchServed ==
    /\ modalPending \in {"get", "refetch"}
    /\ ~modalReply.served
    /\ \E fails \in BOOLEAN :
          modalReply' = IF fails THEN [NoReply EXCEPT !.served = TRUE]
                        ELSE [served |-> TRUE, ok |-> TRUE, returned |-> FALSE, job |-> Get(job)]
    /\ UNCHANGED <<modalJob, isLoading, modalError, isCancelling, modalPending,
                   jobCompleteCalled>>

\* fetchJobDetails after the await, and the finally blocks
ModalFetchSettled ==
    /\ modalPending \in {"get", "refetch"}
    /\ modalReply.served
    /\ IF modalReply.ok
       THEN /\ modalJob' = modalReply.job
            /\ jobCompleteCalled' =
                  (jobCompleteCalled \/
                     (modalJob.status # "completed" /\ modalReply.job.status = "completed"))
            /\ UNCHANGED modalError
       ELSE /\ modalError' = "Failed to fetch job details"
            /\ UNCHANGED <<modalJob, jobCompleteCalled>>
    /\ isLoading' = FALSE
    /\ isCancelling' = IF modalPending = "refetch" THEN FALSE ELSE isCancelling
    /\ modalPending' = "none"
    /\ modalReply' = NoReply

\* the job the interval callback reads: the effect ran in the render of the
\* mount and is not run again, so this is the job of useState(null)
IntervalJob == NoJob

\* the callback of setInterval(..., 1000): fetchJobDetails when the job it
\* reads is running or pending, nothing otherwise
ModalIntervalTick ==
    IF IntervalJob.status \in {"running", "pending"}
    THEN /\ modalPending = "none"
         /\ modalPending' = "get"
         /\ modalError' = NoError
         /\ UNCHANGED <<modalJob, isLoading, isCancelling, modalReply, jobCompleteCalled>>
    ELSE UNCHANGED modalVars

\* cancelJob up to the await
ModalCancelClick ==
    /\ CancelButton
    /\ isCancelling' = TRUE
    /\ modalPending' = "cancel"
    /\ UNCHANGED <<modalJob, isLoading, modalError, modalReply, jobCompleteCalled>>

\* POST /api/jobs/{id}/cancel reaches the store: Cancel(JobId).  What the
\* endpoint answers when the store returns false is not known: success with
\* the value, or an error status.
ModalCancelServed ==
    /\ modalPending = "cancel"
    /\ ~modalReply.served
    /\ job' = Cancel(job).job
    /\ \E http \in BOOLEAN :
          /\ Cancel(job).ok => http
          /\ modalReply' = [served |-> TRUE, ok |-> http, returned |-> Cancel(job).ok,
                            job |-> NoJob]
    /\ UNCHANGED <<outcomes, itemInFlight>>
    /\ UNCHANGED <<modalJob, isLoading, modalError, isCancelling, modalPending,
                   jobCompleteCalled>>

\* cancelJob after the await: fetchJobDetails starts, or the catch block
ModalCancelSettled ==
    /\ modalPending = "cancel"
    /\ modalReply.served
    /\ IF modalReply.ok
       THEN /\ modalError' = NoError
            /\ modalPending' = "refetch"
            /\ UNCHANGED isCancelling
       ELSE /\ modalError' = "Failed to cancel job"
            /\ modalPending' = "none"
            /\ isCancelling' = FALSE
    /\ modalReply' = NoReply
    /\ UNCHANGED <<modalJob, isLoading, jobCompleteCalled>>

ModalInit ==
    /\ modalJob = NoJob
    /\ isLoading = TRUE
    /\ modalError = NoError
    /\ isCancelling = FALSE
    /\ modalPending = "get"
    /\ modalReply = NoReply
    /\ jobCompleteCalled = FALSE

\* no modal is open
ModalIdle ==
    /\ modalJob = NoJob
    /\ isLoading = TRUE
    /\ modalError = NoError
    /\ isCancelling = FALSE
    /\ modalPending = "none"
    /\ modalReply = NoReply
    /\ jobCompleteCalled = FALSE

--------------------------------------------------------------------------
(* The worklist computation on its own: EpisodePreviewStep rendered with   *)
(* an analysis and any pair of language props.                             *)

LanguageProps == Languages \cup {""}

WorklistInit ==
    /\ show \in Shows
    /\ analysis = BuildAnalysis(show)
    /\ currentStep = "preview"
    /\ primaryLanguage \in LanguageProps
    /\ secondaryLanguage \in LanguageProps
    /\ stylingConfig = InitialStylingConfig
    /\ jobId = 0
    /\ selPrimary = ""
    /\ selSecondary = ""
    /\ postInFlight = {}
    /\ postCount = 0
    /\ wizardOpen = TRUE

\* the step is rendered again with other language props
WorklistRender ==
    /\ \E p \in LanguageProps, s \in LanguageProps :
          /\ <<p, s>> # <<primaryLanguage, secondaryLanguage>>
          /\ primaryLanguage' = p
          /\ secondaryLanguage' = s
    /\ UNCHANGED <<show, analysis, currentStep, stylingConfig, jobId, selPrimary,
                   selSecondary, postInFlight, postCount, wizardOpen>>

--------------------------------------------------------------------------
(* The pipeline of one item: Synchronizer Adapter and Dual Merge Engine.   *)
(* A Track is a list of Cues; a Cue has a start and an end time.           *)

CueStarts == {0, 1}

CueLength == 1

Cue(start) == [start |-> start, end |-> start + CueLength, text |-> "text"]

\* the lists of at most n cues in file order
RECURSIVE CueLists(_)
CueLists(n) ==
    IF n = 0 THEN {<<>>}
    ELSE CueLists(n - 1) \cup
         {Append(l, Cue(t)) : l \in {x \in CueLists(n - 1) : Len(x) = n - 1},
                              t \in CueStarts}

FileOrdered(l) == \A i \in 1..(Len(l) - 1) : l[i].start <= l[i + 1].start

Tracks == {[cues |-> l, synced |-> FALSE] : l \in {x \in CueLists(MaxCues) : FileOrdered(x)}}

NoTrack == [cues |-> <<>>, synced |-> FALSE]

ToolResults == {"ok", "timeout", "tool failed", "tool missing"}

SyncOffsets == {0, 1}

Shifted(l, offset) ==
    [i \in 1..Len(l) |-> [l[i] EXCEPT !.start = @ + offset, !.end = @ + offset]]

\* a plausible slip: a failed invocation returns no cues
Synchronize_NoFallback(target, toolResult, offset) ==
    IF toolResult = "ok"
    THEN [track |-> [cues |-> Shifted(target.cues, offset), synced |-> TRUE], warnings |-> <<>>]
    ELSE [track |-> NoTrack, warnings |-> <<toolResult>>]

\* Synchronize(targetTrack, reference, timeoutSeconds): the aligned Track,
\* or on timeout or tool failure the original Track with a warning
Synchronize(target, toolResult, offset) ==
    IF toolResult = "ok"
    THEN [track |-> [cues |-> Shifted(target.cues, offset), synced |-> TRUE], warnings |-> <<>>]
    ELSE [track |-> target, warnings |-> <<toolResult>>]

NoReference == [kind |-> "none", track |-> NoTrack]

MediaReference == [kind |-> "media", track |-> NoTrack]

\* a plausible slip: the secondary is synchronized to the primary as read
TrackReference_Original(original, aligned) == [kind |-> "track", track |-> original]

\* sync-to-track: the reference is the primary Track the adapter returned
TrackReference(original, aligned) == [kind |-> "track", track |-> aligned]

\* the cue as it stands in the output: its slot, and the prefix when enabled
Tagged(cue, slot, language, mergeConfig) ==
    [start |-> cue.start, end |-> cue.end, slot |-> slot,
     text |-> IF mergeConfig.enable_language_prefix THEN <<language, cue.text>> ELSE <<cue.text>>]

TaggedCues(track, slot, language, mergeConfig) ==
    [i \in 1..Len(track.cues) |-> Tagged(track.cues[i], slot, language, mergeConfig)]

RECURSIVE InsertByStart(_, _)
\* the cue goes behind every cue that does not start later: a stable sort
InsertByStart(sorted, cue) ==
    IF sorted = <<>> THEN <<cue>>
    ELSE IF Head(sorted).start <= cue.start
    THEN <<Head(sorted)>> \o InsertByStart(Tail(sorted), cue)
    ELSE <<cue>> \o sorted

RECURSIVE SortByStart(_, _)
SortByStart(cues, sorted) ==
    IF cues = <<>> THEN sorted
    ELSE SortByStart(Tail(cues), InsertByStart(sorted, Head(cues)))

\* a plausible slip: a secondary cue with the times of a primary cue is
\* folded into it
Merge_Folded(primary, secondary, mergeConfig) ==
    LET a == TaggedCues(primary, "primary", mergeConfig.primary_language, mergeConfig)
        b == TaggedCues(secondary, "secondary", mergeConfig.secondary_language, mergeConfig)
        kept == {i \in 1..Len(b) :
                   ~\E k \in 1..Len(a) : a[k].start = b[i].start /\ a[k].end = b[i].end}
        out == SortByStart(a \o SeqFilterIdx(b, kept, 1), <<>>)
    IN [track |-> [cues |-> out, synced |-> FALSE],
        details |-> [primary_lines |-> Len(a), secondary_lines |-> Len(b),
                     total_lines |-> Len(out)]]

\* Merge(primaryTrack, secondaryTrack, mergeConfig): the two cue streams
\* concatenated, tagged, and sorted by start time
Merge(primary, secondary, mergeConfig) ==
    LET a == TaggedCues(primary, "primary", mergeConfig.primary_language, mergeConfig)
        b == TaggedCues(secondary, "secondary", mergeConfig.secondary_language, mergeConfig)
        out == SortByStart(a \o b, <<>>)
    IN [track |-> [cues |-> out, synced |-> FALSE],
        details |-> [primary_lines |-> Len(a), secondary_lines |-> Len(b),
                     total_lines |-> Len(out)]]

NoMerge ==
    [track |-> NoTrack,
     details |-> [primary_lines |-> 0, secondary_lines |-> 0, total_lines |-> 0]]

PipelineKeeps(names) ==
    \A name \in {"primary", "secondary", "reference", "warnings", "merge", "outcome"} \ names :
        CASE name = "primary" -> alignedPrimary' = alignedPrimary
          [] name = "secondary" -> alignedSecondary' = alignedSecondary
          [] name = "reference" -> secondaryReference' = secondaryReference
          [] name = "warnings" -> syncWarnings' = syncWarnings
          [] name = "merge" -> mergeResult' = mergeResult
          [] name = "outcome" -> itemOutcome' = itemOutcome

\* the primary Track is synchronized to the media
SyncPrimaryStart ==
    /\ pipelineStep = "loaded"
    /\ pipelineConfig.enable_sync
    /\ pipelineStep' = "syncing primary"
    /\ PipelineKeeps({})
    /\ UNCHANGED <<primaryTrack, secondaryTrack, pipelineConfig>>

\* the invocation ends: aligned, timed out, or the tool failed
SyncPrimaryEnd ==
    /\ pipelineStep = "syncing primary"
    /\ \E toolResult \in ToolResults, offset \in SyncOffsets :
          LET r == Synchronize(primaryTrack, toolResult, offset)
          IN /\ alignedPrimary' = r.track
             /\ syncWarnings' = syncWarnings \o r.warnings
    /\ pipelineStep' = "primary done"
    /\ PipelineKeeps({"primary", "warnings"})
    /\ UNCHANGED <<primaryTrack, secondaryTrack, pipelineConfig>>

\* the secondary Track is synchronized: to the aligned primary Track, or,
\* when there is none, to the media or not at all
SyncSecondaryStart ==
    /\ pipelineStep = "primary done"
    /\ IF alignedPrimary.synced
       THEN /\ secondaryReference' = TrackReference(primaryTrack, alignedPrimary)
            /\ pipelineStep' = "syncing secondary"
       ELSE \/ /\ secondaryReference' = MediaReference
               /\ pipelineStep' = "syncing secondary"
            \/ /\ secondaryReference' = NoReference
               /\ pipelineStep' = "ready"
    /\ PipelineKeeps({"reference"})
    /\ UNCHANGED <<primaryTrack, secondaryTrack, pipelineConfig>>

SyncSecondaryEnd ==
    /\ pipelineStep = "syncing secondary"
    /\ \E toolResult \in ToolResults, offset \in SyncOffsets :
          LET r == Synchronize(secondaryTrack, toolResult, offset)
          IN /\ alignedSecondary' = r.track
             /\ syncWarnings' = syncWarnings \o r.warnings
    /\ pipelineStep' = "ready"
    /\ PipelineKeeps({"secondary", "warnings"})
    /\ UNCHANGED <<primaryTrack, secondaryTrack, pipelineConfig>>

\* the merge runs on the Tracks the adapter returned; the item succeeds
MergeTracks ==
    /\ \/ pipelineStep = "ready"
       \/ pipelineStep = "loaded" /\ ~pipelineConfig.enable_sync
    /\ mergeResult' = Merge(alignedPrimary, alignedSecondary, pipelineConfig)
    /\ itemOutcome' = "successful"
    /\ pipelineStep' = "merged"
    /\ PipelineKeeps({"merge", "outcome"})
    /\ UNCHANGED <<primaryTrack, secondaryTrack, pipelineConfig>>

\* an input error: a source cannot be read; the item fails
SourceUnreadable ==
    /\ pipelineStep = "loaded"
    /\ itemOutcome' = "failed"
    /\ pipelineStep' = "failed"
    /\ PipelineKeeps({"outcome"})
    /\ UNCHANGED <<primaryTrack, secondaryTrack, pipelineConfig>>

PipelineConfigs ==
    {[primary_language |-> "en", secondary_language |-> "ja",
      enable_sync |-> sync, enable_language_prefix |-> prefix] :
        sync \in BOOLEAN, prefix \in BOOLEAN}

PipelineInit ==
    /\ primaryTrack \in Tracks
    /\ secondaryTrack \in Tracks
    /\ pipelineConfig \in PipelineConfigs
    /\ pipelineStep = "loaded"
    /\ alignedPrimary = primaryTrack
    /\ alignedSecondary = secondaryTrack
    /\ secondaryReference = NoReference
    /\ syncWarnings = <<>>
    /\ mergeResult = NoMerge
    /\ itemOutcome = "pending"

\* no item is in the pipeline
PipelineIdle ==
    /\ primaryTrack = NoTrack
    /\ secondaryTrack = NoTrack
    /\ pipelineConfig = [primary_language |-> "", secondary_language |-> "",
                         enable_sync |-> FALSE, enable_language_prefix |-> FALSE]
    /\ pipelineStep = "idle"
    /\ alignedPrimary = NoTrack
    /\ alignedSecondary = NoTrack
    /\ secondaryReference = NoReference
    /\ syncWarnings = <<>>
    /\ mergeResult = NoMerge
    /\ itemOutcome = "pending"

--------------------------------------------------------------------------
(* SubtitleManager: the upload form.  A file is known by its name.         *)

NoFile == <<>>

NoToast == ""

NoCall == [file |-> NoFile, language |-> ""]

UploadExtensions ==
    { <<".", "s", "r", "t">>,
      <<".", "a", "s", "s">>,
      <<".", "v", "t", "t">>,
      <<".", "s", "u", "b">> }

\* file.name.match(/\.(srt|ass|vtt|sub)$/i)
HasUploadExtension(name) ==
    \E ext \in UploadExtensions :
        /\ Len(name) >= Len(ext)
        /\ ToLowerCase(SubSeq(name, Len(name) - Len(ext) + 1, Len(name))) = ext

\* the files the user can offer
OfferedFiles ==
    { <<"a", ".", "s", "r", "t">>,
      <<"a", ".", "S", "R", "T">>,
      <<"a", ".", "j", "a", ".", "a", "s", "s">>,
      <<"a", ".", "v", "t", "t">>,
      <<"a", ".", "s", "u", "b">>,
      <<"a", ".", "t", "x", "t">>,
      <<"a", ".", "s", "r", "t", ".", "b", "a", "k">>,
      <<"s", "r", "t">> }

\* what extractLanguageFromFilename of utils/languageDetection (not part of
\* the sources at hand) can return for a name: a code of the table, or null
DetectedCodes == {"", "ja"}

\* setDetectedLanguage / setUploadLanguage after a detection
Detection(detectedLang) ==
    /\ detectedLanguage' = detectedLang
    /\ uploadLanguage' = IF detectedLang # "" THEN detectedLang ELSE uploadLanguage

\* handleDrop
DropFile ==
    /\ \E file \in OfferedFiles, detectedLang \in DetectedCodes :
          IF HasUploadExtension(file)
          THEN /\ uploadFile' = file
               /\ Detection(detectedLang)
               /\ UNCHANGED lastToast
          ELSE /\ lastToast' = "Invalid file type"
               /\ UNCHANGED <<uploadFile, uploadLanguage, detectedLanguage>>
    /\ UNCHANGED <<isUploading, uploadCall>>

\* onChange of the file input, which is rendered while no file is held;
\* its accept attribute filters the picker's list but the user can choose
\* any file
PickFile ==
    /\ uploadFile = NoFile
    /\ \E file \in OfferedFiles, detectedLang \in DetectedCodes :
          /\ uploadFile' = file
          /\ Detection(detectedLang)
    /\ UNCHANGED <<isUploading, lastToast, uploadCall>>

\* the Remove button
RemoveFile ==
    /\ uploadFile # NoFile
    /\ uploadFile' = NoFile
    /\ UNCHANGED <<uploadLanguage, detectedLanguage, isUploading, lastToast, uploadCall>>

\* a language option of the dropdown
SelectUploadLanguage ==
    /\ \E code \in {"en", "ja"} : uploadLanguage' = code
    /\ uploadLanguage' # uploadLanguage
    /\ UNCHANGED <<uploadFile, detectedLanguage, isUploading, lastToast, uploadCall>>

\* handleUpload up to the await
HandleUpload ==
    /\ uploadFile # NoFile
    /\ ~isUploading
    /\ isUploading' = TRUE
    /\ uploadCall' = [file |-> uploadFile, language |-> uploadLanguage]
    /\ UNCHANGED <<uploadFile, uploadLanguage, detectedLanguage, lastToast>>

\* onUpload resolved: the form is reset
UploadResolved ==
    /\ uploadCall # NoCall
    /\ uploadFile' = NoFile
    /\ uploadLanguage' = "en"
    /\ detectedLanguage' = ""
    /\ lastToast' = "Success"
    /\ isUploading' = FALSE
    /\ uploadCall' = NoCall

\* onUpload rejected
UploadRejected ==
    /\ uploadCall # NoCall
    /\ lastToast' = "Upload failed"
    /\ isUploading' = FALSE
    /\ uploadCall' = NoCall
    /\ UNCHANGED <<uploadFile, uploadLanguage, detectedLanguage>>

UploadInit ==
    /\ uploadFile = NoFile
    /\ uploadLanguage = "en"
    /\ detectedLanguage = ""
    /\ isUploading = FALSE
    /\ lastToast = NoToast
    /\ uploadCall = NoCall

\* nothing happens in the upload form
UploadIdle == UploadInit

--------------------------------------------------------------------------
(* SubtitleManager: extractions and deletions in progress.  The lists are   *)
(* the props of the component and are taken as fixed; every listed stream  *)
(* has its own index and every listed file its own path.  A call keeps the *)
(* key it was made for and the set its handler's render had.               *)

\* stream_index of the embedded subtitles listed
StreamIndexes == 1..MaxStreams

\* file_path of the external subtitles listed, numbered
FilePaths == 1..MaxFiles

\* prev => new Set(prev).add(key)
AddKey(prev, rendered, key) == prev \cup {key}

\* an update computed from the set of the handler's render
DeleteKey_FromRender(prev, rendered, key) == rendered \ {key}

\* prev => { const newSet = new Set(prev); newSet.delete(key); return newSet }
DeleteKey(prev, rendered, key) == prev \ {key}

\* the keys of the calls awaited
KeysOf(calls) == {call.key : call \in calls}

\* EXTRACT (disabled while the stream is in extractingStreams) ->
\* handleExtract up to the await
HandleExtract ==
    /\ \E streamIndex \in StreamIndexes :
          /\ streamIndex \notin extractingStreams
          /\ extractingStreams' = AddKey(extractingStreams, extractingStreams, streamIndex)
          /\ extractCalls' = extractCalls \cup
                  {[key |-> streamIndex, rendered |-> extractingStreams]}
    /\ UNCHANGED <<deletingFiles, deleteCalls, lastToast>>

\* onExtract settles: the toast of the try or of the catch block, then the
\* finally block
ExtractSettled ==
    /\ \E call \in extractCalls, resolved \in BOOLEAN :
          /\ extractCalls' = extractCalls \ {call}
          /\ lastToast' = IF resolved THEN "Success" ELSE "Extraction failed"
          /\ extractingStreams' = DeleteKey(extractingStreams, call.rendered, call.key)
    /\ UNCHANGED <<deletingFiles, deleteCalls>>

\* the delete button (disabled while the file is in deletingFiles) ->
\* handleDelete up to the await; nothing happens unless confirm() is accepted
HandleDelete ==
    /\ \E filePath \in FilePaths, confirmed \in BOOLEAN :
          /\ filePath \notin deletingFiles
          /\ IF confirmed
             THEN /\ deletingFiles' = AddKey(deletingFiles, deletingFiles, filePath)
                  /\ deleteCalls' = deleteCalls \cup
                          {[key |-> filePath, rendered |-> deletingFiles]}
             ELSE UNCHANGED <<deletingFiles, deleteCalls>>
    /\ UNCHANGED <<extractingStreams, extractCalls, lastToast>>

\* onDelete settles: the toast of the try or of the catch block, then the
\* finally block
DeleteSettled ==
    /\ \E call \in deleteCalls, resolved \in BOOLEAN :
          /\ deleteCalls' = deleteCalls \ {call}
          /\ lastToast' = IF resolved THEN "Subtitle deleted" ELSE "Delete failed"
          /\ deletingFiles' = DeleteKey(deletingFiles, call.rendered, call.key)
    /\ UNCHANGED <<extractingStreams, extractCalls>>

\* useState(new Set()): nothing is in progress
BusyInit ==
    /\ extractingStreams = {}
    /\ deletingFiles = {}
    /\ extractCalls = {}
    /\ deleteCalls = {}

\* nothing is extracted or deleted
BusyIdle == BusyInit

--------------------------------------------------------------------------
(* Specifications *)

InitWizard == WizardInit /\ CreatorIdle /\ FilesIdle /\ JobsIdle /\ PollingIdle /\ ModalIdle /\ PipelineIdle /\ UploadIdle /\ EffectIdle /\ StartIdle /\ BusyIdle

NextWizard ==
    \/ AnalysisLoad /\ EffectFollows /\ UNCHANGED <<creatorVars, fileVars, jobVars, pollVars, modalVars, pipelineVars, uploadVars, startVars, busyVars>>
    \/ PrimarySelectChange /\ EffectFollows /\ UNCHANGED <<creatorVars, fileVars, jobVars, pollVars, modalVars, pipelineVars, uploadVars, startVars, busyVars>>
    \/ SecondarySelectChange /\ EffectFollows /\ UNCHANGED <<creatorVars, fileVars, jobVars, pollVars, modalVars, pipelineVars, uploadVars, startVars, busyVars>>
    \/ ChipClick /\ EffectFollows /\ UNCHANGED <<creatorVars, fileVars, jobVars, pollVars, modalVars, pipelineVars, uploadVars, startVars, busyVars>>
    \/ Continue /\ EffectFollows /\ UNCHANGED <<creatorVars, fileVars, jobVars, pollVars, modalVars, pipelineVars, uploadVars, startVars, busyVars>>
    \/ StylingConfigChange /\ EffectFollows /\ UNCHANGED <<creatorVars, fileVars, jobVars, pollVars, modalVars, pipelineVars, uploadVars, startVars, busyVars>>
    \/ StartProcessing /\ EffectFollows /\ UNCHANGED <<creatorVars, fileVars, jobVars, pollVars, modalVars, pipelineVars, uploadVars, startVars, busyVars>>
    \/ JobStarted /\ EffectFollows /\ UNCHANGED <<creatorVars, fileVars, jobVars, pollVars, modalVars, pipelineVars, uploadVars, startVars, busyVars>>
    \/ JobStartFailed /\ EffectFollows /\ UNCHANGED <<creatorVars, fileVars, jobVars, pollVars, modalVars, pipelineVars, uploadVars, startVars, busyVars>>
    \/ Back /\ EffectFollows /\ UNCHANGED <<creatorVars, fileVars, jobVars, pollVars, modalVars, pipelineVars, uploadVars, startVars, busyVars>>
    \/ Close /\ EffectFollows /\ UNCHANGED <<creatorVars, fileVars, jobVars, pollVars, modalVars, pipelineVars, uploadVars, startVars, busyVars>>
    \/ ProcessingRender /\ UNCHANGED <<creatorVars, fileVars, jobVars, pollVars, modalVars, pipelineVars, uploadVars, startVars, busyVars>>

SpecWizard == InitWizard /\ [][NextWizard]_vars

InitWorklist == WorklistInit /\ CreatorIdle /\ FilesIdle /\ JobsIdle /\ PollingIdle /\ ModalIdle /\ PipelineIdle /\ UploadIdle /\ EffectIdle /\ StartIdle /\ BusyIdle

NextWorklist == WorklistRender /\ UNCHANGED <<creatorVars, fileVars, jobVars, pollVars, modalVars, pipelineVars, uploadVars, effectVars, startVars, busyVars>>

SpecWorklist == InitWorklist /\ [][NextWorklist]_vars

InitCreator == CreatorInit /\ WizardIdle /\ FilesIdle /\ JobsIdle /\ PollingIdle /\ ModalIdle /\ PipelineIdle /\ UploadIdle /\ EffectIdle /\ StartIdle /\ BusyIdle

NextCreator ==
    \/ PrimarySubtitleChange /\ UNCHANGED <<wizardVars, fileVars, jobVars, pollVars, modalVars, pipelineVars, uploadVars, effectVars, startVars, busyVars>>
    \/ SecondarySubtitleChange /\ UNCHANGED <<wizardVars, fileVars, jobVars, pollVars, modalVars, pipelineVars, uploadVars, effectVars, startVars, busyVars>>
    \/ HandlePreview /\ UNCHANGED <<wizardVars, fileVars, jobVars, pollVars, modalVars, pipelineVars, uploadVars, effectVars, startVars, busyVars>>
    \/ HandleCreate /\ UNCHANGED <<wizardVars, fileVars, jobVars, pollVars, modalVars, pipelineVars, uploadVars, effectVars, startVars, busyVars>>
    \/ PreviewSettled /\ UNCHANGED <<wizardVars, fileVars, jobVars, pollVars, modalVars, pipelineVars, uploadVars, effectVars, startVars, busyVars>>
    \/ CreateSettled /\ UNCHANGED <<wizardVars, fileVars, jobVars, pollVars, modalVars, pipelineVars, uploadVars, effectVars, startVars, busyVars>>
    \/ SubtitlesRefetched /\ UNCHANGED <<wizardVars, fileVars, jobVars, pollVars, modalVars, pipelineVars, uploadVars, effectVars, startVars, busyVars>>

SpecCreator == InitCreator /\ [][NextCreator]_vars

InitNaming == NamingInit /\ WizardIdle /\ CreatorIdle /\ JobsIdle /\ PollingIdle /\ ModalIdle /\ PipelineIdle /\ UploadIdle /\ EffectIdle /\ StartIdle /\ BusyIdle

NextNaming ==
    \/ DualFileWritten /\ UNCHANGED <<wizardVars, creatorVars, jobVars, pollVars, modalVars, pipelineVars, uploadVars, effectVars, startVars, busyVars>>
    \/ ParseDualFile /\ UNCHANGED <<wizardVars, creatorVars, jobVars, pollVars, modalVars, pipelineVars, uploadVars, effectVars, startVars, busyVars>>

SpecNaming == InitNaming /\ [][NextNaming]_vars

InitLanguage == LanguageInit /\ WizardIdle /\ CreatorIdle /\ JobsIdle /\ PollingIdle /\ ModalIdle /\ PipelineIdle /\ UploadIdle /\ EffectIdle /\ StartIdle /\ BusyIdle

NextLanguage == ExtractLanguages /\ UNCHANGED <<wizardVars, creatorVars, jobVars, pollVars, modalVars, pipelineVars, uploadVars, effectVars, startVars, busyVars>>

SpecLanguage == InitLanguage /\ [][NextLanguage]_vars

InitPolling ==
    JobsInit /\ PollingInit /\ WizardIdle /\ CreatorIdle /\ FilesIdle /\ ModalIdle /\ PipelineIdle /\ UploadIdle /\ EffectIdle /\ BusyIdle

NextPolling ==
    \/ StartJob /\ UNCHANGED <<wizardVars, creatorVars, fileVars, pollVars, modalVars, pipelineVars, uploadVars, effectVars, startVars, busyVars>>
    \/ BeginItem /\ UNCHANGED <<wizardVars, creatorVars, fileVars, pollVars, modalVars, pipelineVars, uploadVars, effectVars, startVars, busyVars>>
    \/ FinishItem /\ UNCHANGED <<wizardVars, creatorVars, fileVars, pollVars, modalVars, pipelineVars, uploadVars, effectVars, startVars, busyVars>>
    \/ ObserveCancel /\ UNCHANGED <<wizardVars, creatorVars, fileVars, pollVars, modalVars, pipelineVars, uploadVars, effectVars, startVars, busyVars>>
    \/ CompleteJob /\ UNCHANGED <<wizardVars, creatorVars, fileVars, pollVars, modalVars, pipelineVars, uploadVars, effectVars, startVars, busyVars>>
    \/ OrchestrationError /\ UNCHANGED <<wizardVars, creatorVars, fileVars, pollVars, modalVars, pipelineVars, uploadVars, effectVars, startVars, busyVars>>
    \/ CancelRequested /\ UNCHANGED <<wizardVars, creatorVars, fileVars, pollVars, modalVars, pipelineVars, uploadVars, effectVars, startVars, busyVars>>
    \/ PollTick /\ UNCHANGED <<wizardVars, creatorVars, fileVars, jobVars, modalVars, pipelineVars, uploadVars, effectVars, startVars, busyVars>>
    \/ PollFailed /\ UNCHANGED <<wizardVars, creatorVars, fileVars, jobVars, modalVars, pipelineVars, uploadVars, effectVars, startVars, busyVars>>
    \/ PollHandled /\ UNCHANGED <<wizardVars, creatorVars, fileVars, jobVars, modalVars, pipelineVars, uploadVars, effectVars, startVars, busyVars>>
    \/ CompleteTimeout /\ UNCHANGED <<wizardVars, creatorVars, fileVars, jobVars, modalVars, pipelineVars, uploadVars, effectVars, startVars, busyVars>>
    \/ Unmount /\ UNCHANGED <<wizardVars, creatorVars, fileVars, jobVars, modalVars, pipelineVars, uploadVars, effectVars, busyVars>>
    \/ JobCreated /\ UNCHANGED <<wizardVars, creatorVars, fileVars, jobVars, modalVars, pipelineVars, uploadVars, effectVars, busyVars>>
    \/ JobCreateFailed /\ UNCHANGED <<wizardVars, creatorVars, fileVars, jobVars, modalVars, pipelineVars, uploadVars, effectVars, busyVars>>
    \/ CleanupThen /\ UNCHANGED <<wizardVars, creatorVars, fileVars, jobVars, modalVars, pipelineVars, uploadVars, effectVars, busyVars>>

\* a callback in the microtask queue runs
Microtask ==
    /\ CleanupThen
    /\ UNCHANGED <<wizardVars, creatorVars, fileVars, jobVars, modalVars, pipelineVars, uploadVars, effectVars, busyVars>>

\* a queued microtask runs before the event loop takes anything else
SpecPolling == InitPolling /\ [][NextPolling]_vars /\ WF_vars(Microtask)

InitModal ==
    JobsInit /\ ModalInit /\ WizardIdle /\ CreatorIdle /\ FilesIdle /\ PollingIdle /\ PipelineIdle /\ UploadIdle /\ EffectIdle /\ StartIdle /\ BusyIdle

\* a step of the scheduler or of the orchestrator's loop
JobStep ==
    /\ StartJob \/ BeginItem \/ FinishItem \/ ObserveCancel \/ CompleteJob
    /\ UNCHANGED <<wizardVars, creatorVars, fileVars, pollVars, modalVars, pipelineVars, uploadVars, effectVars, startVars, busyVars>>

NextModal ==
    \/ JobStep
    \/ OrchestrationError /\ UNCHANGED <<wizardVars, creatorVars, fileVars, pollVars, modalVars, pipelineVars, uploadVars, effectVars, startVars, busyVars>>
    \/ ModalFetchServed /\ UNCHANGED <<wizardVars, creatorVars, fileVars, pollVars, jobVars, pipelineVars, uploadVars, effectVars, startVars, busyVars>>
    \/ ModalFetchSettled /\ UNCHANGED <<wizardVars, creatorVars, fileVars, pollVars, jobVars, pipelineVars, uploadVars, effectVars, startVars, busyVars>>
    \/ ModalCancelClick /\ UNCHANGED <<wizardVars, creatorVars, fileVars, pollVars, jobVars, pipelineVars, uploadVars, effectVars, startVars, busyVars>>
    \/ ModalCancelServed /\ UNCHANGED <<wizardVars, creatorVars, fileVars, pollVars, pipelineVars, uploadVars, effectVars, startVars, busyVars>>
    \/ ModalCancelSettled /\ UNCHANGED <<wizardVars, creatorVars, fileVars, pollVars, jobVars, pipelineVars, uploadVars, effectVars, startVars, busyVars>>
    \/ ModalIntervalTick /\ UNCHANGED <<wizardVars, creatorVars, fileVars, pollVars, jobVars, pipelineVars, uploadVars, effectVars, startVars, busyVars>>

\* what the modal does by itself: a request is answered or fails, its
\* continuation runs, and the timer calls the callback every second
ModalStep ==
    /\ \/ /\ ModalFetchServed \/ ModalFetchSettled \/ ModalCancelSettled \/ ModalIntervalTick
          /\ UNCHANGED jobVars
       \/ ModalCancelServed
    /\ UNCHANGED <<wizardVars, creatorVars, fileVars, pollVars, pipelineVars, uploadVars, effectVars, startVars, busyVars>>

\* the scheduler picks a pending job up and every step of the orchestrator
\* ends (the external tool is bounded by its timeout); every request of the
\* modal is answered and the interval keeps firing
SpecModal == InitModal /\ [][NextModal]_vars /\ WF_vars(JobStep) /\ WF_vars(ModalStep)

InitPipeline ==
    PipelineInit /\ WizardIdle /\ CreatorIdle /\ FilesIdle /\ JobsIdle /\ PollingIdle /\ ModalIdle /\ UploadIdle /\ EffectIdle /\ StartIdle /\ BusyIdle

\* a step of the pipeline
PipelineStep ==
    /\ \/ SyncPrimaryStart
       \/ SyncPrimaryEnd
       \/ SyncSecondaryStart
       \/ SyncSecondaryEnd
       \/ MergeTracks
    /\ UNCHANGED <<wizardVars, creatorVars, fileVars, jobVars, pollVars, modalVars, uploadVars, effectVars, startVars, busyVars>>

NextPipeline ==
    \/ PipelineStep
    \/ SourceUnreadable /\ UNCHANGED <<wizardVars, creatorVars, fileVars, jobVars, pollVars, modalVars, uploadVars, effectVars, startVars, busyVars>>

\* every invocation of the tool ends, by its timeout at the latest, and the
\* orchestrator goes on to the next step
SpecPipeline == InitPipeline /\ [][NextPipeline]_vars /\ WF_vars(PipelineStep)

InitUpload ==
    /\ UploadInit /\ WizardIdle /\ CreatorIdle /\ FilesIdle /\ JobsIdle /\ PollingIdle
    /\ ModalIdle /\ PipelineIdle /\ EffectIdle /\ StartIdle /\ BusyIdle

NextUpload ==
    \/ DropFile /\ UNCHANGED <<wizardVars, creatorVars, fileVars, jobVars, pollVars, modalVars, pipelineVars, effectVars, startVars, busyVars>>
    \/ PickFile /\ UNCHANGED <<wizardVars, creatorVars, fileVars, jobVars, pollVars, modalVars, pipelineVars, effectVars, startVars, busyVars>>
    \/ RemoveFile /\ UNCHANGED <<wizardVars, creatorVars, fileVars, jobVars, pollVars, modalVars, pipelineVars, effectVars, startVars, busyVars>>
    \/ SelectUploadLanguage /\ UNCHANGED <<wizardVars, creatorVars, fileVars, jobVars, pollVars, modalVars, pipelineVars, effectVars, startVars, busyVars>>
    \/ HandleUpload /\ UNCHANGED <<wizardVars, creatorVars, fileVars, jobVars, pollVars, modalVars, pipelineVars, effectVars, startVars, busyVars>>
    \/ UploadResolved /\ UNCHANGED <<wizardVars, creatorVars, fileVars, jobVars, pollVars, modalVars, pipelineVars, effectVars, startVars, busyVars>>
    \/ UploadRejected /\ UNCHANGED <<wizardVars, creatorVars, fileVars, jobVars, pollVars, modalVars, pipelineVars, effectVars, startVars, busyVars>>

SpecUpload == InitUpload /\ [][NextUpload]_vars

InitBusy ==
    /\ UploadInit /\ BusyInit /\ WizardIdle /\ CreatorIdle /\ FilesIdle /\ JobsIdle
    /\ PollingIdle /\ ModalIdle /\ PipelineIdle /\ EffectIdle /\ StartIdle

\* the upload form is left alone
FormUntouched == UNCHANGED <<uploadFile, uploadLanguage, detectedLanguage, isUploading, uploadCall>>

NextBusy ==
    \/ HandleExtract /\ FormUntouched /\ UNCHANGED <<wizardVars, creatorVars, fileVars, jobVars, pollVars, modalVars, pipelineVars, effectVars, startVars>>
    \/ ExtractSettled /\ FormUntouched /\ UNCHANGED <<wizardVars, creatorVars, fileVars, jobVars, pollVars, modalVars, pipelineVars, effectVars, startVars>>
    \/ HandleDelete /\ FormUntouched /\ UNCHANGED <<wizardVars, creatorVars, fileVars, jobVars, pollVars, modalVars, pipelineVars, effectVars, startVars>>
    \/ DeleteSettled /\ FormUntouched /\ UNCHANGED <<wizardVars, creatorVars, fileVars, jobVars, pollVars, modalVars, pipelineVars, effectVars, startVars>>

SpecBusy == InitBusy /\ [][NextBusy]_vars

--------------------------------------------------------------------------
(* Claims *)

\* the episodes of the show that have subtitles in both languages
ShowEpisodesWithBoth(p, s) ==
    {e \in 1..Len(show) : p \in Range(show[e].langs) /\ s \in Range(show[e].langs)}

\* ... and among them those that carry a dual subtitle for {p, s}
ShowEpisodesWithDual(p, s) ==
    {e \in ShowEpisodesWithBoth(p, s) :
        \E i \in 1..Len(show[e].duals) :
            Len(show[e].duals[i]) = 2 /\ Range(show[e].duals[i]) = {p, s}}

\* C1: for every analysis and every pair of language props, the ready count
\* of the wizard footer and of the preview step is the number of episodes with
\* both languages minus those among them that carry a dual subtitle for the
\* pair in either order.
C1_WorklistExclusion ==
    LET expected == Cardinality(ShowEpisodesWithBoth(primaryLanguage, secondaryLanguage))
                    - Cardinality(ShowEpisodesWithDual(primaryLanguage, secondaryLanguage))
    IN /\ readyCount = expected
       /\ Stats(analysis, primaryLanguage, secondaryLanguage).ready = expected

\* an episode with a (ja, en) dual is excluded from the (en, ja) worklist
C1_Witness ==
    /\ primaryLanguage = "en" /\ secondaryLanguage = "ja"
    /\ \E e \in ShowEpisodesWithBoth("en", "ja") :
          <<"ja", "en">> \in Range(show[e].duals)
    /\ readyCount < Cardinality(ShowEpisodesWithBoth("en", "ja"))

\* C4: in the steps preview, processing and results the wizard's two
\* languages are non-empty and different, and so are the languages of the bulk
\* job request that entering the processing step sends.
C4_BulkLanguagesDistinct ==
    (wizardOpen /\ currentStep \in {"preview", "processing", "results"}) =>
        /\ primaryLanguage # ""
        /\ secondaryLanguage # ""
        /\ primaryLanguage # secondaryLanguage
        /\ BulkRequest.primary_language # BulkRequest.secondary_language
        /\ BulkRequest.styling_config.primary_language = primaryLanguage
        /\ BulkRequest.styling_config.secondary_language = secondaryLanguage

\* a request is in flight after the discovery step's selection was changed, and
\* the discovery step holds equal values after coming back
C4_Witness ==
    /\ wizardOpen
    /\ currentStep = "discovery"
    /\ selPrimary # "" /\ selPrimary = selSecondary
    /\ postInFlight # {}

\* the track a submitted request names for a slot
TrackRef(data, slot) ==
    IF slot = "primary"
    THEN <<data.primary_source_type, data.primary_subtitle, data.primary_stream_index>>
    ELSE <<data.secondary_source_type, data.secondary_subtitle, data.secondary_stream_index>>

\* a pending request names two different tracks, from non-empty selections
DistinctTracks(data) ==
    data # NoRequest =>
        /\ data.primary_subtitle # ""
        /\ data.secondary_subtitle # ""
        /\ TrackRef(data, "primary") # TrackRef(data, "secondary")

\* C3: every create or preview request submitted by DualSubtitleCreator was
\* built from two non-empty selections and names two different tracks.
C3_DistinctTracks ==
    DistinctTracks(createRequest) /\ DistinctTracks(previewRequest)

\* after the selections were changed, a create request for an external and an
\* embedded track and a preview request are pending
C3_Witness ==
    /\ createPending /\ previewPending
    /\ createRequest.primary_source_type = "external"
    /\ createRequest.secondary_source_type = "embedded"
    /\ config.primary_subtitle = config.secondary_subtitle

\* C9: parseDualLanguages applied to "<name>.dual.<p>-<s>.srt" returns
\* exactly [p, s], for every pair of codes of the language table.
C9_NamingRoundTrip ==
    dualLanguages # Unparsed => dualLanguages = namedLanguages

\* the dot-separated segments of the file name as given, and those among
\* them that are neither an extension nor an episode marker
NameSegments == SplitDots(fileName, <<>>)

CandidateSegments ==
    {k \in 1..Len(NameSegments) : ~SkippedPart(ToLowerCase(NameSegments[k]))}

\* the code or an alias of the row equals the text, letter case aside
NamesLanguage(text, row) ==
    \/ ToLowerCase(LanguageTable[row].code) = ToLowerCase(text)
    \/ \E k \in 1..Len(LanguageTable[row].commonCodes) :
          ToLowerCase(LanguageTable[row].commonCodes[k]) = ToLowerCase(text)

RowOfCode(code) == CHOOSE i \in 1..Len(LanguageTable) : LanguageTable[i].code = code

\* found lists, once each and in order of first occurrence, the languages
\* of the rows that have an occurrence; occurrences(row) is a set of
\* segment positions
ListsExactly(found, occurrences(_)) ==
    /\ {found[k] : k \in 1..Len(found)} =
          {LanguageTable[i].code : i \in {j \in 1..Len(LanguageTable) : occurrences(j) # {}}}
    /\ \A k, m \in 1..Len(found) : k # m => found[k] # found[m]
    /\ \A k, m \in 1..Len(found) :
          k < m => Least(occurrences(RowOfCode(found[k]))) < Least(occurrences(RowOfCode(found[m])))

SegmentsEqual(row) == {k \in CandidateSegments : NamesLanguage(NameSegments[k], row)}

SegmentsEqualTrimmed(row) == {k \in CandidateSegments : NamesLanguage(Trim(NameSegments[k]), row)}

\* C10 as stated: extractLanguageFromFilename returns, without duplicates
\* and in order of first occurrence, exactly the languages whose code or
\* alias equals, letter case aside, a segment of the name that is not an
\* extension or episode marker.
C10_ExactSegmentMatch ==
    foundLanguages # Unparsed => ListsExactly(foundLanguages, SegmentsEqual)

\* C10 amended: the same, where a segment is compared after the white space
\* around it is removed; a name without a matching segment gives the empty
\* list.
C10_TrimmedSegmentMatch ==
    foundLanguages # Unparsed => ListsExactly(foundLanguages, SegmentsEqualTrimmed)

\* a name with an alias in capitals, a second alias of the same language
\* and another language has been looked at
C10_Witness ==
    /\ fileName = Join(<<<<"E", "N">>, <<"e", "n", "g">>, <<"j", "p">>>>, <<".">>)
    /\ foundLanguages = <<<<"e", "n">>, <<"j", "a">>>>

\* the moves of the status the state machine allows
AllowedMoves ==
    {<<"pending", "running">>, <<"running", "completed">>,
     <<"running", "failed">>, <<"running", "cancelled">>}

\* the status moves along the state machine and a terminal job is not
\* changed any more
JobLifecycle ==
    /\ job'.status # job.status => <<job.status, job'.status>> \in AllowedMoves
    /\ IsTerminal(job) => job' = job

C5_ProgressMonotone ==
    [][/\ job'.processed >= job.processed
       /\ job'.processed <= job'.total
       /\ \A r \in BagToSet(pollResponses') :
             CopiesIn(r, pollResponses') > CopiesIn(r, pollResponses) => r = job']_vars

\* a read taken after a progress update is on its way while the job has
\* moved on
C5_Witness ==
    \E r \in BagToSet(pollResponses) :
        /\ r.status = "running"
        /\ r.processed >= 1
        /\ job.processed > r.processed

\* the store answers the modal's cancel request in this step
CancelAnswered == modalPending = "cancel" /\ ~modalReply.served /\ modalReply'.served

\* C6: a cancel request on a pending or running job is recorded and the job
\* ends in a terminal status; on a terminal job it returns false and leaves
\* the job as it is, also when the client that sent it showed an old status.
C6_Cancel ==
    /\ job.cancel_requested ~> IsTerminal(job)
    /\ [][CancelAnswered =>
             IF IsTerminal(job)
             THEN job' = job /\ ~modalReply'.returned
             ELSE /\ job' = [job EXCEPT !.cancel_requested = TRUE]
                  /\ modalReply'.returned]_vars

\* the modal shows a running job, the job has ended meanwhile, and the
\* cancel request sent from the modal was answered with false
C6_Witness ==
    /\ modalJob # NoJob
    /\ modalJob.status = "running"
    /\ IsTerminal(job)
    /\ ~job.cancel_requested
    /\ modalPending = "cancel"
    /\ modalReply.served
    /\ ~modalReply.returned

ItemIn(list, i) == \E k \in 1..Len(list) : list[k] = i

\* every episode is in the list of its outcome, and in no other
ResultHolds(result, done) ==
    /\ result.recorded
    /\ \A i \in 1..Len(done) :
          /\ ItemIn(result.successful, i) <=> done[i] = "successful"
          /\ ItemIn(result.failed, i) <=> done[i] = "failed"
          /\ ItemIn(result.skipped, i) <=> done[i] = "skipped"

\* C7: an episode that fails leaves the job running and the rest is still
\* processed; a job only fails by an orchestration error; a job that is not
\* cancelled and meets no orchestration error ends completed, with a result
\* of three lists that holds every episode, also when all of them failed.
C7_ItemFailureIsLocal ==
    /\ [][Len(outcomes') > Len(outcomes) => job'.status = "running"]_vars
    /\ [](job.status = "failed" => job.error = "orchestration error")
    /\ [](job.status = "completed" =>
             Len(outcomes) = job.total /\ ResultHolds(job.result, outcomes))
    /\ [](~job.cancel_requested /\ job.status # "failed") => <>(job.status = "completed")

\* a job of several episodes has completed although each of them failed
C7_Witness ==
    /\ job.status = "completed"
    /\ job.total >= 2
    /\ Len(job.result.failed) = job.total

\* C8: the episodes finished before the cancellation was observed are in the
\* lists of the cancelled job, and a client that reads the cancelled job
\* shows them.
C8_PartialResultShown ==
    /\ job.status = "cancelled" => ResultHolds(job.result, outcomes)
    /\ (JobRendered /\ modalJob.status = "cancelled") => ResultsShown

C12_SyncFallback ==
    /\ [][Len(syncWarnings') > Len(syncWarnings) =>
             /\ pipelineStep = "syncing primary" => alignedPrimary' = primaryTrack
             /\ pipelineStep = "syncing secondary" => alignedSecondary' = secondaryTrack
             /\ syncWarnings'[Len(syncWarnings')] \in ToolResults \ {"ok"}]_vars
    /\ [](~alignedPrimary.synced => alignedPrimary = primaryTrack)
    /\ [](~alignedSecondary.synced => alignedSecondary = secondaryTrack)
    /\ [](syncWarnings # <<>> => itemOutcome # "failed")
    /\ (syncWarnings # <<>>) ~>
          (/\ pipelineStep = "merged"
           /\ itemOutcome = "successful"
           /\ mergeResult = Merge(alignedPrimary, alignedSecondary, pipelineConfig))

\* both synchronizations fell back and the item was merged from the Tracks
\* as read
C12_Witness ==
    /\ pipelineStep = "merged"
    /\ Len(syncWarnings) = 2
    /\ primaryTrack.cues # <<>>
    /\ Len(mergeResult.track.cues) = Len(primaryTrack.cues) + Len(secondaryTrack.cues)

\* the number of cues of the list with the slot and the times
CuesLike(cues, slot, start, end) ==
    Cardinality({i \in 1..Len(cues) :
                   /\ cues[i].start = start
                   /\ cues[i].end = end
                   /\ (slot # "" => cues[i].slot = slot)})

CueTimes(cues) == {<<cues[i].start, cues[i].end>> : i \in 1..Len(cues)}

\* C13: the merged Track has len(A) + len(B) cues, total_lines =
\* primary_lines + secondary_lines, and every cue of A and of B is in it
\* once, with its start and end time.
C13_MergeKeepsCues ==
    pipelineStep = "merged" =>
        LET out == mergeResult.track.cues
            d == mergeResult.details
        IN /\ Len(out) = Len(alignedPrimary.cues) + Len(alignedSecondary.cues)
           /\ d.primary_lines = Len(alignedPrimary.cues)
           /\ d.secondary_lines = Len(alignedSecondary.cues)
           /\ d.total_lines = d.primary_lines + d.secondary_lines
           /\ d.total_lines = Len(out)
           /\ \A t \in CueTimes(out) \cup CueTimes(alignedPrimary.cues)
                                     \cup CueTimes(alignedSecondary.cues) :
                 /\ CuesLike(out, "primary", t[1], t[2]) =
                       CuesLike(alignedPrimary.cues, "", t[1], t[2])
                 /\ CuesLike(out, "secondary", t[1], t[2]) =
                       CuesLike(alignedSecondary.cues, "", t[1], t[2])

\* two Tracks with a cue at the same times were merged
C13_Witness ==
    /\ pipelineStep = "merged"
    /\ \E i \in 1..Len(alignedPrimary.cues), k \in 1..Len(alignedSecondary.cues) :
          /\ alignedPrimary.cues[i].start = alignedSecondary.cues[k].start
          /\ alignedPrimary.cues[i].end = alignedSecondary.cues[k].end
    /\ Len(mergeResult.track.cues) >= 3

\* C14: the file held for upload, and any file passed to onUpload, has a
\* name that ends in .srt, .ass, .vtt or .sub; offering another file leaves
\* the file held as it is and raises the toast "Invalid file type".
C14_UploadExtension ==
    /\ uploadFile # NoFile => HasUploadExtension(uploadFile)
    /\ uploadCall # NoCall => HasUploadExtension(uploadCall.file)

\* the episodes of the show that have exactly one of the two languages
ShowEpisodesWithOne(p, s) ==
    {e \in 1..Len(show) : (p \in Range(show[e].langs)) # (s \in Range(show[e].langs))}

\* ... and those that have neither
ShowEpisodesWithNone(p, s) ==
    {e \in 1..Len(show) : p \notin Range(show[e].langs) /\ s \notin Range(show[e].langs)}

\* C15: for every analysis and pair of languages the counts READY, EXISTS,
\* PARTIAL and SKIP of the preview step add up to total_episodes; READY is
\* the worklist size, EXISTS the episodes with both languages that have the
\* dual pair, PARTIAL the episodes with exactly one of the two languages and
\* SKIP the episodes with neither.
C15_StatsPartition ==
    LET p == primaryLanguage
        s == secondaryLanguage
        stats == Stats(analysis, p, s)
    IN (p # s /\ HasAvail(analysis, p) /\ HasAvail(analysis, s)) =>
          /\ stats.ready + stats.alreadyExists + stats.needsAttention + stats.willSkip
                = analysis.total_episodes
          /\ stats.alreadyExists = Cardinality(ShowEpisodesWithDual(p, s))
          /\ stats.ready = Cardinality(ShowEpisodesWithBoth(p, s)) - stats.alreadyExists
          /\ stats.needsAttention = Cardinality(ShowEpisodesWithOne(p, s))
          /\ stats.willSkip = Cardinality(ShowEpisodesWithNone(p, s))

\* C16: the READY count of the discovery step for a selected pair is the
\* number of episodes that have both languages, the count the preview step
\* and the wizard footer start from.
C16_DiscoveryReady ==
    LET p == primaryLanguage
        s == secondaryLanguage
    IN (p # s /\ HasAvail(analysis, p) /\ HasAvail(analysis, s)) =>
          /\ PreviewData(analysis, p, s).compatible = Len(EpisodesWithBoth(analysis, p, s))
          /\ PreviewData(analysis, p, s).compatible = Cardinality(ShowEpisodesWithBoth(p, s))

\* the modal shows a job that is pending or running
ModalShowsActive == JobRendered /\ modalJob.status \in {"pending", "running"}

\* the modal shows a job in a terminal status
ModalShowsTerminal == JobRendered /\ modalJob.status \in TerminalStatuses

\* C17: a modal that shows a pending or running job comes to show it in a
\* terminal status by its periodic fetches alone, unless the user cancels
\* the job or a request fails first
C17_ModalReachesTerminal ==
    ModalShowsActive ~> (ModalShowsTerminal \/ isCancelling \/ modalError # NoError)

\* the moves of the wizard going forwards
ForwardMoves ==
    {<<"discovery", "preview">>, <<"preview", "processing">>,
     <<"processing", "results">>}

\* the moves of the Back button
BackMoves == {<<"preview", "discovery">>, <<"processing", "preview">>}

\* a step of the open wizard follows the protocol
StepProtocol ==
    /\ currentStep' # currentStep =>
          \/ <<currentStep, currentStep'>> \in ForwardMoves
          \/ jobId = 0 /\ <<currentStep, currentStep'>> \in BackMoves
    /\ jobId # 0 => currentStep' = "results"

\* C18: the step of the wizard moves discovery -> preview -> processing ->
\* results only, Back leads from preview to discovery and from processing
\* to preview while no job id has been received, and once a job id has
\* been received the step stays results until the wizard is closed.
C18_StepProtocol == [][wizardOpen' => StepProtocol]_vars

\* the wizard could start a job: an analysis is loaded, both languages are
\* selected and at least one episode is ready
ReadyToStart ==
    /\ analysis # NoAnalysis
    /\ primaryLanguage # "" /\ secondaryLanguage # ""
    /\ readyCount >= 1

\* C19: the wizard enters the processing step, and a bulk job creation
\* request is sent, only with an analysis loaded, both languages selected
\* and a ready count of at least 1.
C19_StartNeedsReady ==
    [][(\/ currentStep # "processing" /\ currentStep' = "processing"
        \/ postCount' # postCount
        \/ postInFlight' \ postInFlight # {}) => ReadyToStart]_vars

\* the wizard has entered the processing step and its request is on its way
C19_Witness ==
    /\ wizardOpen /\ currentStep = "processing"
    /\ postInFlight # {}
    /\ ReadyToStart

\* the wizard shows the processing step
InProcessing == wizardOpen /\ currentStep = "processing"

\* C20: each entry of the wizard into the processing step sends exactly one
\* bulk job creation request: one at the entry, and none while the wizard
\* stays on the step, whatever renders and responses happen there.
C20_OnePostPerEntry ==
    /\ [](InProcessing => effectPosts = 1)
    /\ [][/\ (~InProcessing /\ InProcessing') => postCount' = postCount + 1
          /\ (InProcessing /\ InProcessing') =>
                (postCount' = postCount /\ postInFlight' \subseteq postInFlight)]_vars

\* the wizard is on the processing step for the second time, and the step
\* has rendered again after both requests were answered
C20_Witness ==
    /\ InProcessing
    /\ postCount = 2
    /\ postInFlight = {}
    /\ effectPosts = 1

C22_IntervalCleared ==
    /\ ~mounted ~> ~pollInterval
    /\ [][~mounted =>
            BagCardinality(pollResponses') <= BagCardinality(pollResponses)]_vars

\* the step was unmounted, its creation request has resolved, and the
\* then-callback of the cleanup has cleared the interval
C22_Witness ==
    /\ ~mounted
    /\ intervalPromise = "interval"
    /\ cleanupThen = "done"
    /\ ~pollInterval

\* a cancel request is sent in this step
CancelSent == modalPending # "cancel" /\ modalPending' = "cancel"

\* cancelJob returns in this step: after the re-fetch, or in its catch block
CancelReturns == modalPending \in {"cancel", "refetch"} /\ modalPending' = "none"

C24_InProgressExact ==
    /\ [](extractingStreams = KeysOf(extractCalls))
    /\ [](deletingFiles = KeysOf(deleteCalls))
    /\ [][/\ extractingStreams \ extractingStreams' = KeysOf(extractCalls \ extractCalls')
          /\ deletingFiles \ deletingFiles' = KeysOf(deleteCalls \ deleteCalls')]_vars

\* of two extractions that ran at the same time the first has settled and
\* the second, started while the first was running, is still in progress;
\* a deletion is in progress as well
C24_Witness ==
    /\ \E call \in extractCalls :
          /\ call.rendered # {}
          /\ extractingStreams = {call.key}
    /\ Cardinality(extractCalls) = 1
    /\ deletingFiles # {}

====
